---- MODULE Spec2Model ----
(***************************************************************************)
(* A model of the chroma-key mixed-reality viewer: the App mode machine    *)
(* (2D preview loop / WebXR session), the ChromaKey compositor, the        *)
(* UIController parameter provider and the VideoPlayer frame source.       *)
(*                                                                         *)
(* Numbers the program keeps as floats (tolerance, smoothing, distance,    *)
(* scale, offsets) are integers counting hundredths: 0.35 is 35, 2.0 is    *)
(* 200.  Matrices are 16-tuples of exact rationals <<n, d>>, column-major   *)
(* as in the source.  The host (browser, WebXR device) is the environment: *)
(* its choices are the \E-bound inputs of the actions.                     *)
(***************************************************************************)
EXTENDS Integers, Sequences, FiniteSets, TLC

----------------------------------------------------------------------------
\* Bounds of the model.

\* Immersive sessions the host grants in one run.
MaxSessions == 1
\* startXR calls that may await the capability query at the same time.
MaxCalls == 1
\* Views the host supplies with one viewer pose.
MaxViews == 2
\* requestAnimationFrame handles of the window that may be pending at once.
MaxRaf == 2
\* Taps on a move button (left/right/up/down) away from the initial offset.
MaxOffsetTaps == 1
\* Input events that take effect between two views of a frame, in one run.
MaxMidInputs == 1
\* Pixels shaded between two inputs.
MaxFragments == 2
\* Blob URLs created and not revoked.
MaxBlobs == 2

----------------------------------------------------------------------------
\* Program constants.

MOVE_STEP == 15
DEPTH_STEP == 30
SCALE_STEP == 15
MIN_DISTANCE == 30
MAX_DISTANCE == 1000
MIN_SCALE == 20
MAX_SCALE == 500
INIT_TOLERANCE == 35
INIT_SMOOTHING == 10
INIT_DISTANCE == 200
INIT_SCALE == 100
INIT_OFFSET_X == 0
INIT_OFFSET_Y == 150
BLACK_TOLERANCE_LIMIT == 20
BLACK_TOLERANCE == 15

Sessions == 1..MaxSessions
RafIds == 1..MaxRaf
Eyes == 1..MaxViews

\* null of the source: no session, no handle, no context.
Null == 0

----------------------------------------------------------------------------
\* Strings of the DOM and their conversion to numbers.  A string is a
\* sequence of one-character strings; a number is an integer of hundredths.

\* NaN is a value apart from every number the model reaches.
NaN == 0 - 1000000000

DigitChars == <<"0", "1", "2", "3", "4", "5", "6", "7", "8", "9">>

DigitValue(c) == (CHOOSE i \in 1..10 : DigitChars[i] = c) - 1

IsDigit(c) == \E i \in 1..10 : DigitChars[i] = c

RECURSIVE Digits(_)
Digits(n) == IF n < 10 THEN <<DigitChars[n + 1]>>
             ELSE Digits(n \div 10) \o <<DigitChars[(n % 10) + 1]>>

\* Number.prototype.toString for a number of at most two decimals: the
\* shortest decimal form, no trailing zeros, no trailing point.
NumberToString(v) ==
  LET a == IF v < 0 THEN 0 - v ELSE v
      f == a % 100
      frac == IF f = 0 THEN <<>>
              ELSE IF f % 10 = 0 THEN <<".", DigitChars[(f \div 10) + 1]>>
              ELSE <<".", DigitChars[(f \div 10) + 1], DigitChars[(f % 10) + 1]>>
  IN  (IF v < 0 THEN <<"-">> ELSE <<>>) \o Digits(a \div 100) \o frac

\* The longest prefix of s made of digits.
RECURSIVE DigitPrefix(_)
DigitPrefix(s) == IF s = <<>> \/ ~IsDigit(Head(s)) THEN <<>>
                  ELSE <<Head(s)>> \o DigitPrefix(Tail(s))

RECURSIVE DigitsToNat(_, _)
DigitsToNat(s, acc) == IF s = <<>> THEN acc
                       ELSE DigitsToNat(Tail(s), acc * 10 + DigitValue(Head(s)))

\* parseFloat: an optional sign, digits, an optional fraction; NaN when the
\* string starts with no number.  Decimals past the second are dropped (the
\* model's precision).
ParseFloat(s) ==
  LET neg == s # <<>> /\ Head(s) = "-"
      t == IF s # <<>> /\ Head(s) \in {"-", "+"} THEN Tail(s) ELSE s
      ip == DigitPrefix(t)
      r == SubSeq(t, Len(ip) + 1, Len(t))
      fp == IF r # <<>> /\ Head(r) = "." THEN DigitPrefix(Tail(r)) ELSE <<>>
      f2 == IF Len(fp) = 0 THEN 0
            ELSE IF Len(fp) = 1 THEN DigitValue(fp[1]) * 10
            ELSE DigitValue(fp[1]) * 10 + DigitValue(fp[2])
      mag == DigitsToNat(ip, 0) * 100 + f2
  IN  IF ip = <<>> /\ fp = <<>> THEN NaN
      ELSE IF neg THEN 0 - mag ELSE mag

----------------------------------------------------------------------------
\* Exact rationals <<n, d>>, d > 0, in lowest terms.

RECURSIVE GCD(_, _)
GCD(a, b) == IF b = 0 THEN a ELSE GCD(b, a % b)

Abs(x) == IF x < 0 THEN 0 - x ELSE x

Rat(n, d) == IF n = 0 THEN <<0, 1>>
             ELSE LET g == GCD(Abs(n), Abs(d))
                      s == IF d < 0 THEN 0 - 1 ELSE 1
                  IN  <<(s * n) \div g, (s * d) \div g>>

RZero == <<0, 1>>
ROne == <<1, 1>>

RMul(a, b) == IF a[1] = 0 \/ b[1] = 0 THEN RZero
              ELSE IF a = ROne THEN b
              ELSE IF b = ROne THEN a
              ELSE Rat(a[1] * b[1], a[2] * b[2])

RAdd(a, b) == IF a[1] = 0 THEN b
              ELSE IF b[1] = 0 THEN a
              ELSE Rat(a[1] * b[2] + b[1] * a[2], a[2] * b[2])

\* A number of hundredths as a rational.
Hundredths(v) == Rat(v, 100)

----------------------------------------------------------------------------
\* Matrix helpers of App: 4x4, column-major, index 1..16 for the source's 0..15.

mat4Translate(x, y, z) ==
  << ROne,  RZero, RZero, RZero,
     RZero, ROne,  RZero, RZero,
     RZero, RZero, ROne,  RZero,
     x,     y,     z,     ROne >>

mat4Scale(sx, sy, sz) ==
  << sx,    RZero, RZero, RZero,
     RZero, sy,    RZero, RZero,
     RZero, RZero, sz,    RZero,
     RZero, RZero, RZero, ROne >>

mat4Multiply(a, b) ==
  [ n \in 1..16 |->
      LET i == (n - 1) % 4
          j == (n - 1) \div 4
      IN  RAdd(RAdd(RMul(a[i + 1], b[j * 4 + 1]),
                    RMul(a[4 + i + 1], b[j * 4 + 2])),
               RAdd(RMul(a[8 + i + 1], b[j * 4 + 3]),
                    RMul(a[12 + i + 1], b[j * 4 + 4]))) ]

IDENTITY == mat4Scale(ROne, ROne, ROne)

\* ChromaKey.KEY_COLORS: the presets by name; RGB triples.
KeyColorNames == {"green", "blue", "black"}

KEY_COLORS == [ c \in KeyColorNames |->
                  IF c = "green" THEN <<0, 1, 0>>
                  ELSE IF c = "blue" THEN <<0, 0, 1>>
                  ELSE <<0, 0, 0>> ]


----------------------------------------------------------------------------
\* State.

VARIABLES
  app,         \* App: xrSession, xrRefSpace, xrGLLayer, previewAnimId, isXR
  ck,          \* ChromaKey: gl, program, videoTexture, quadVAO, current*
  ui,          \* UIController: key and placement parameters, status bar, overlay
  player,      \* VideoPlayer: the video element and isReady
  rafPending,  \* window.requestAnimationFrame handles pending, each a `loop`
  host,        \* navigator.xr and its sessions, and the startXR calls awaiting it
  frame,       \* the position of an xrRenderLoop invocation in its view loop
  lastOps,     \* the host and GL calls issued by the handler that ran last
  ev           \* how the handler that ran last ended, when it ended a startXR
               \* call, a session, a preview frame or an immersive frame

vars == <<app, ck, ui, player, rafPending, host, frame, lastOps, ev>>

\* ev after a handler whose outcome shows in the state it leaves.
EvStep == "step"

\* Graphics contexts are named by their canvas.
NoContext == "none"
PreviewCanvas == "preview"
XRCanvas == "xr"

\* How a ChromaKey.init call can go on the host: both stages succeed, no
\* context of either version is available, or a shader stage or the link fails.
InitOutcomes == {"ok", "noContext", "shaderFail"}

----------------------------------------------------------------------------
\* ChromaKey (the Compositor).  c is the module's state, a record.

\* An init that would also put the key settings back to their defaults.
InitResetsSettings(c, canvas, outcome) ==
  [c EXCEPT !.gl = IF outcome = "noContext" THEN NoContext ELSE canvas,
            !.program = IF outcome = "ok" THEN canvas ELSE @,
            !.quadVAO = IF outcome = "ok" THEN canvas ELSE @,
            !.videoTexture = IF outcome = "ok" THEN canvas ELSE @,
            !.currentKeyColor = KEY_COLORS["green"],
            !.currentTolerance = INIT_TOLERANCE,
            !.currentSmoothing = INIT_SMOOTHING]

\* init(canvas, ctxAttrs): gl is assigned first, so a missing context leaves
\* gl null and a shader failure leaves the new gl with the old program,
\* texture and quad.  The current key settings are not touched.
ChromaKeyInit(c, canvas, outcome) ==
  [c EXCEPT !.gl = IF outcome = "noContext" THEN NoContext ELSE canvas,
            !.program = IF outcome = "ok" THEN canvas ELSE @,
            !.quadVAO = IF outcome = "ok" THEN canvas ELSE @,
            !.videoTexture = IF outcome = "ok" THEN canvas ELSE @]

InitThrows(outcome) == outcome # "ok"

\* What the host answers to one init call: whether a webgl2 and a webgl
\* context can be had, whether each shader compiles and the program links.
InitAnswers == [webgl2 : BOOLEAN, webgl : BOOLEAN, vertex : BOOLEAN,
                fragment : BOOLEAN, link : BOOLEAN]

\* How init goes with those answers.
InitOutcome(h) ==
  IF ~h.webgl2 /\ ~h.webgl THEN "noContext"
  ELSE IF ~h.vertex \/ ~h.fragment \/ ~h.link THEN "shaderFail"
  ELSE "ok"

\* An init that would return the context without looking at the link status.
InitCallsUnchecked(canvas, h) ==
  LET ctx == << [op |-> "getContext", ctx |-> canvas, version |-> "webgl2", ok |-> h.webgl2] >>
             \o (IF h.webgl2 THEN <<>>
                 ELSE << [op |-> "getContext", ctx |-> canvas, version |-> "webgl",
                          ok |-> h.webgl] >>)
      fail(e) == << [op |-> "throw", ctx |-> canvas, error |-> e] >>
      vs == << [op |-> "compile", ctx |-> canvas, stage |-> "vertex", ok |-> h.vertex] >>
      fs == << [op |-> "compile", ctx |-> canvas, stage |-> "fragment", ok |-> h.fragment] >>
      ln == << [op |-> "link", ctx |-> canvas, ok |-> h.link] >>
  IN  IF ~h.webgl2 /\ ~h.webgl THEN ctx \o fail("WebGL not supported")
      ELSE IF ~h.vertex THEN ctx \o vs \o fail("Shader compile error")
      ELSE IF ~h.fragment THEN ctx \o vs \o fs \o fail("Shader compile error")
      ELSE ctx \o vs \o fs \o ln
           \o << [op |-> "createBuffer", ctx |-> canvas],
                 [op |-> "createTexture", ctx |-> canvas],
                 [op |-> "return", ctx |-> canvas, value |-> canvas] >>

\* The calls of init, compileShader and createProgram on the host, in
\* order, ending in the throw or in the return of the context: webgl2 is
\* asked first and webgl only when that fails; the vertex shader is compiled
\* before the fragment shader; each failure throws at once.
InitCalls(canvas, h) ==
  LET ctx == << [op |-> "getContext", ctx |-> canvas, version |-> "webgl2", ok |-> h.webgl2] >>
             \o (IF h.webgl2 THEN <<>>
                 ELSE << [op |-> "getContext", ctx |-> canvas, version |-> "webgl",
                          ok |-> h.webgl] >>)
      fail(e) == << [op |-> "throw", ctx |-> canvas, error |-> e] >>
      vs == << [op |-> "compile", ctx |-> canvas, stage |-> "vertex", ok |-> h.vertex] >>
      fs == << [op |-> "compile", ctx |-> canvas, stage |-> "fragment", ok |-> h.fragment] >>
      ln == << [op |-> "link", ctx |-> canvas, ok |-> h.link] >>
  IN  IF ~h.webgl2 /\ ~h.webgl THEN ctx \o fail("WebGL not supported")
      ELSE IF ~h.vertex THEN ctx \o vs \o fail("Shader compile error")
      ELSE IF ~h.fragment THEN ctx \o vs \o fs \o fail("Shader compile error")
      ELSE IF ~h.link THEN ctx \o vs \o fs \o ln \o fail("Program link error")
      ELSE ctx \o vs \o fs \o ln
           \o << [op |-> "createBuffer", ctx |-> canvas],
                 [op |-> "createTexture", ctx |-> canvas],
                 [op |-> "return", ctx |-> canvas, value |-> canvas] >>

\* Viewports: the whole canvas, or the region of one eye.
CanvasViewport == <<"canvas", 0>>

\* clearColor(0, 0, 0, 0)
Transparent == <<0, 0, 0, 0>>

\* render called without a viewport argument.
NoViewport == <<"none", 0>>

\* updateTexture(video): a no-op without context or texture; texImage2D
\* throws a SecurityError on a video that was loaded without crossOrigin.
updateTexture(c, v) ==
  IF c.gl = NoContext \/ c.videoTexture = NoContext THEN <<>>
  ELSE << [op |-> "upload", ctx |-> c.gl, ok |-> ~v.tainted] >>

\* A render that would draw into the default backbuffer whatever
\* framebuffer it is given, and skip the viewport when one is bound already.
renderDefaultTarget(c, projectionMatrix, viewMatrix, modelMatrix, framebuffer, viewport, curVp) ==
  IF c.gl = NoContext \/ c.program = NoContext THEN <<>>
  ELSE << [op |-> "draw", ctx |-> c.gl,
           fb |-> Null,
           vp |-> curVp,
           proj |-> projectionMatrix, view |-> viewMatrix, model |-> modelMatrix,
           keyColor |-> c.currentKeyColor,
           tolerance |-> c.currentTolerance,
           smoothing |-> c.currentSmoothing,
           program |-> c.program, texture |-> c.videoTexture, quad |-> c.quadVAO] >>

\* render(projection, view, model, framebuffer, viewport): a no-op without
\* context or program.  curVp is the viewport bound when render is entered.
render(c, projectionMatrix, viewMatrix, modelMatrix, framebuffer, viewport, curVp) ==
  IF c.gl = NoContext \/ c.program = NoContext THEN <<>>
  ELSE << [op |-> "draw", ctx |-> c.gl,
           fb |-> framebuffer,
           vp |-> IF viewport # NoViewport THEN viewport ELSE curVp,
           proj |-> projectionMatrix, view |-> viewMatrix, model |-> modelMatrix,
           keyColor |-> c.currentKeyColor,
           tolerance |-> c.currentTolerance,
           smoothing |-> c.currentSmoothing,
           program |-> c.program, texture |-> c.videoTexture, quad |-> c.quadVAO] >>

\* An op sequence ends in a throw when its last call failed.
Threw(ops) == ops # <<>> /\ ops[Len(ops)].op = "upload" /\ ~ops[Len(ops)].ok


\* The fragment stage (FRAG_SRC), in exact rationals.

\* a < b, compared over the least common denominator.
RLess(a, b) == LET g == GCD(a[2], b[2])
               IN  a[1] * (b[2] \div g) < b[1] * (a[2] \div g)

\* GLSL clamp(x, 0.0, 1.0)
clamp01(x) == IF RLess(x, RZero) THEN RZero ELSE IF RLess(ROne, x) THEN ROne ELSE x

\* A ramp that would rise in a straight line between its edges.
linearstep(edge0, edge1, x) == clamp01(Rat(x - edge0, edge1 - edge0))

\* GLSL smoothstep(edge0, edge1, x) for edge0 < edge1:
\* t = clamp((x - edge0) / (edge1 - edge0), 0, 1); t * t * (3 - 2 * t).
smoothstep(edge0, edge1, x) ==
  LET t == clamp01(Rat(x - edge0, edge1 - edge0))
  IN  RMul(RMul(t, t), RAdd(Rat(3, 1), RMul(Rat(0 - 2, 1), t)))

\* The alphas the fragment stage may derive at key distance diff.  GLSL
\* leaves smoothstep undefined when edge0 >= edge1, that is when the
\* smoothing is 0: a build may then give either end of the ramp.
AlphaOutcomes(uTolerance, uSmoothing, diff) ==
  IF uSmoothing > 0 THEN { smoothstep(uTolerance, uTolerance + uSmoothing, diff) }
  ELSE { RZero, ROne }

\* if (alpha < 0.01) discard;
Discards(alpha) == RLess(alpha, Rat(1, 100))

\* renderPreview(video): viewport to the canvas, clear, upload, identity draw.
renderPreview(c, v) ==
  IF c.gl = NoContext THEN <<>>
  ELSE LET head == << [op |-> "viewport", ctx |-> c.gl, vp |-> CanvasViewport],
                      [op |-> "clear", ctx |-> c.gl, fb |-> Null, color |-> Transparent] >>
           up == updateTexture(c, v)
       IN  IF Threw(up) THEN head \o up
           ELSE head \o up
                \o render(c, IDENTITY, IDENTITY, IDENTITY, Null, NoViewport, CanvasViewport)

\* renderPreview(video) on a canvas whose backing size is `backing` and
\* whose displayed size is `displayed`: the backing size is set to the
\* displayed one when they differ, then the calls of renderPreview follow.
renderPreviewOn(c, v, backing, displayed) ==
  IF c.gl = NoContext THEN <<>>
  ELSE (IF backing # displayed
        THEN << [op |-> "resize", ctx |-> c.gl, size |-> displayed] >>
        ELSE <<>>)
       \o renderPreview(c, v)

\* setKeyColor(name): unknown names are ignored.
setKeyColor(c, name) ==
  IF name \in DOMAIN KEY_COLORS THEN [c EXCEPT !.currentKeyColor = KEY_COLORS[name]]
  ELSE c

\* setTolerance(val), setSmoothing(val): parseFloat of the number given.
setTolerance(c, val) == [c EXCEPT !.currentTolerance = ParseFloat(NumberToString(val))]

setSmoothing(c, val) == [c EXCEPT !.currentSmoothing = ParseFloat(NumberToString(val))]


----------------------------------------------------------------------------
\* The host's views and the placement math of xrRenderLoop.

\* A view of a pose: its eye, and the host's opaque matrices for that eye.
View(e) == [eye |-> e, projectionMatrix |-> <<"P", e>>, transform |-> <<"T", e>>]

\* view.transform.inverse.matrix
InverseMatrix(t) == <<"inv", t>>

\* xrGLLayer.getViewport(view)
getViewport(v) == <<"eye", v.eye>>

\* The poses the host may supply: one to MaxViews distinct eyes, in any order.
ViewSeqs == { q \in UNION { [1..n -> Eyes] : n \in 1..MaxViews } :
                \A i, j \in DOMAIN q : i # j => q[i] # q[j] }

NoPose == <<>>

\* The sizes a decoded video reports.
VideoSizes == { <<4, 3>> }

\* A placement that would scale the translated quad: mat4Multiply with its
\* arguments exchanged.
ModelMatrixScaleLast(u, pl) ==
  mat4Multiply(mat4Scale(RMul(RMul(Hundredths(u.screenScale),
                                   IF pl.video /\ pl.videoWidth # 0 /\ pl.videoHeight # 0
                                   THEN Rat(pl.videoWidth, pl.videoHeight)
                                   ELSE Rat(16, 9)),
                              Rat(1, 2)),
                         RMul(Hundredths(u.screenScale), Rat(1, 2)), ROne),
               mat4Translate(Hundredths(u.screenOffsetX), Hundredths(u.screenOffsetY),
                             Hundredths(0 - u.screenDistance)))

\* An aspect ratio taken as height over width.
AspectInverted(pl) == IF pl.video /\ pl.videoWidth # 0 /\ pl.videoHeight # 0
                      THEN Rat(pl.videoHeight, pl.videoWidth)
                      ELSE Rat(9, 16)

\* The aspect ratio: the video's when it reports both dimensions, else 16:9.
Aspect(pl) == IF pl.video /\ pl.videoWidth # 0 /\ pl.videoHeight # 0
              THEN Rat(pl.videoWidth, pl.videoHeight)
              ELSE Rat(16, 9)

halfWidth(u, pl) == RMul(RMul(Hundredths(u.screenScale), Aspect(pl)), Rat(1, 2))

halfHeight(u) == RMul(Hundredths(u.screenScale), Rat(1, 2))

\* modelMatrix = mat4Multiply(translateMat, scaleMat)
ModelMatrix(u, pl) ==
  mat4Multiply(mat4Translate(Hundredths(u.screenOffsetX), Hundredths(u.screenOffsetY),
                             Hundredths(0 - u.screenDistance)),
               mat4Scale(halfWidth(u, pl), halfHeight(u), ROne))

\* What the frame in progress found when it began.
EyeParamsCached == frame.start

\* The parameters an eye's draw reads: the UI getters and the Compositor's
\* current settings, at the moment of that draw.
EyeParams == [u |-> ui, c |-> ck]

----------------------------------------------------------------------------
\* The 2D preview loop.

FreshRaf(pending) == CHOOSE i \in RafIds \ pending : \A j \in RafIds \ pending : i <= j

\* One run of `loop`: nothing during XR; else a preview draw when a video
\* exists, is ready and plays; then the next refresh is requested.  A throw
\* of renderPreview leaves before the request.
loop(xr, c, pl, pending, animId) ==
  IF xr THEN [ops |-> <<>>, pending |-> pending, animId |-> animId]
  ELSE LET ops == IF pl.video /\ pl.isReady /\ ~pl.paused
                  THEN renderPreview(c, pl) ELSE <<>>
           id == FreshRaf(pending)
       IN  IF Threw(ops) THEN [ops |-> ops, pending |-> pending, animId |-> animId]
           ELSE [ops |-> ops \o << [op |-> "raf", ctx |-> "window"] >>,
                 pending |-> pending \cup {id}, animId |-> id]

Idle == ~frame.active

IdleFrame == [active |-> FALSE, views |-> <<>>, start |-> <<>>]

\* A refresh of the display runs the pending `loop` callback id.
PreviewFrame(id) ==
  /\ Idle
  /\ id \in rafPending
  /\ LET r == loop(app.isXR, ck, player, rafPending \ {id}, app.previewAnimId)
     IN  /\ rafPending' = r.pending
         /\ app' = [app EXCEPT !.previewAnimId = r.animId]
         /\ lastOps' = r.ops
         /\ ev' = IF app.isXR THEN EvStep
                  ELSE IF Threw(r.ops) THEN "preview_threw" ELSE "preview_frame"
  /\ UNCHANGED <<ck, ui, player, host, frame>>


----------------------------------------------------------------------------
\* Entering and leaving the immersive session.

\* The class setStatus gives the status bar.
StatusPlain == ""
StatusError == "error"
StatusSuccess == "success"

\* The catch block of startXR.
Caught(a) == [a EXCEPT !.isXR = FALSE]

\* The host refuses a session request made while another one is pending or
\* an immersive session is active.
HostBusy == host.reqPending \/ \E s \in Sessions : host.sess[s] = "live"

NextSession == CHOOSE s \in Sessions :
                 /\ host.sess[s] = "none"
                 /\ \A t \in Sessions : host.sess[t] = "none" => s <= t

\* startXR up to its first await: without navigator.xr an error status and
\* nothing else; with it, the capability query is sent.
StartXR ==
  /\ Idle
  /\ IF ~host.xrAvailable
     THEN /\ ui' = [ui EXCEPT !.status = StatusError]
          /\ ev' = "startXR_unavailable"
          /\ UNCHANGED host
     ELSE /\ host.nSup < MaxCalls
          /\ host' = [host EXCEPT !.nSup = @ + 1]
          /\ ev' = EvStep
          /\ UNCHANGED ui
  /\ lastOps' = <<>>
  /\ UNCHANGED <<app, ck, player, rafPending, frame>>

\* A startXR that would request the session whatever the query answered.
SupportedIgnored(supported) ==
  /\ Idle
  /\ host.nSup > 0
  /\ IF HostBusy
     THEN /\ host' = [host EXCEPT !.nSup = @ - 1]
          /\ app' = Caught(app)
          /\ ui' = [ui EXCEPT !.status = StatusError]
          /\ ev' = IF supported THEN "startXR_failed" ELSE "startXR_unsupported"
     ELSE /\ host' = [host EXCEPT !.nSup = @ - 1, !.reqPending = TRUE]
          /\ ev' = IF supported THEN EvStep ELSE "startXR_unsupported"
          /\ UNCHANGED <<app, ui>>
  /\ lastOps' = <<>>
  /\ UNCHANGED <<ck, player, rafPending, frame>>

\* isSessionSupported resolves: false ends the call with an error status;
\* true requests the session, which the host rejects at once when busy.
SupportedResolve(supported) ==
  /\ Idle
  /\ host.nSup > 0
  /\ IF ~supported
     THEN /\ host' = [host EXCEPT !.nSup = @ - 1]
          /\ ui' = [ui EXCEPT !.status = StatusError]
          /\ ev' = "startXR_unsupported"
          /\ UNCHANGED app
     ELSE IF HostBusy
     THEN /\ host' = [host EXCEPT !.nSup = @ - 1]
          /\ app' = Caught(app)
          /\ ui' = [ui EXCEPT !.status = StatusError]
          /\ ev' = "startXR_failed"
     ELSE /\ host' = [host EXCEPT !.nSup = @ - 1, !.reqPending = TRUE]
          /\ ev' = EvStep
          /\ UNCHANGED <<app, ui>>
  /\ lastOps' = <<>>
  /\ UNCHANGED <<ck, player, rafPending, frame>>

\* isSessionSupported rejects.
SupportedReject ==
  /\ Idle
  /\ host.nSup > 0
  /\ host' = [host EXCEPT !.nSup = @ - 1]
  /\ app' = Caught(app)
  /\ ui' = [ui EXCEPT !.status = StatusError]
  /\ ev' = "startXR_failed"
  /\ lastOps' = <<>>
  /\ UNCHANGED <<ck, player, rafPending, frame>>

\* requestSession rejects (the user or the host declines).
SessionReject ==
  /\ Idle
  /\ host.reqPending
  /\ host' = [host EXCEPT !.reqPending = FALSE]
  /\ app' = Caught(app)
  /\ ui' = [ui EXCEPT !.status = StatusError]
  /\ ev' = "startXR_failed"
  /\ lastOps' = <<>>
  /\ UNCHANGED <<ck, player, rafPending, frame>>

\* A session entry that would leave the pending preview callback uncancelled.
SessionGrantNoCancel(outcome, layerOk) ==
  /\ Idle
  /\ host.reqPending
  /\ InitThrows(outcome) => layerOk
  /\ \E s \in Sessions : host.sess[s] = "none"
  /\ LET s == NextSession
         entered == [app EXCEPT !.xrSession = s, !.isXR = TRUE]
         failed == InitThrows(outcome) \/ ~layerOk
     IN  /\ rafPending' = rafPending
         /\ ck' = ChromaKeyInit(ck, XRCanvas, outcome)
         /\ IF failed
            THEN /\ app' = Caught(entered)
                 /\ ui' = [ui EXCEPT !.status = StatusError]
                 /\ host' = [host EXCEPT !.reqPending = FALSE, !.sess[s] = "live"]
                 /\ ev' = "startXR_failed"
            ELSE /\ app' = [entered EXCEPT !.xrGLLayer = s]
                 /\ host' = [host EXCEPT !.reqPending = FALSE, !.sess[s] = "live",
                                         !.refWait = @ \cup {s}]
                 /\ ev' = EvStep
                 /\ UNCHANGED ui
  /\ lastOps' = <<>>
  /\ UNCHANGED <<player, frame>>

\* requestSession resolves: the mode flips, the pending preview callback is
\* cancelled, the Compositor is initialized on the XR canvas and the layer is
\* made; then the reference space is awaited.  A throw goes to the catch.
\* The layer is made only after init returned: layerOk says how that goes.
SessionGrant(outcome, layerOk) ==
  /\ Idle
  /\ host.reqPending
  /\ InitThrows(outcome) => layerOk
  /\ \E s \in Sessions : host.sess[s] = "none"
  /\ LET s == NextSession
         entered == [app EXCEPT !.xrSession = s, !.isXR = TRUE]
         failed == InitThrows(outcome) \/ ~layerOk
     IN  /\ rafPending' = IF app.previewAnimId # Null
                          THEN rafPending \ {app.previewAnimId} ELSE rafPending
         /\ ck' = ChromaKeyInit(ck, XRCanvas, outcome)
         /\ IF failed
            THEN /\ app' = Caught(entered)
                 /\ ui' = [ui EXCEPT !.status = StatusError]
                 /\ host' = [host EXCEPT !.reqPending = FALSE, !.sess[s] = "live"]
                 /\ ev' = "startXR_failed"
            ELSE /\ app' = [entered EXCEPT !.xrGLLayer = s]
                 /\ host' = [host EXCEPT !.reqPending = FALSE, !.sess[s] = "live",
                                         !.refWait = @ \cup {s}]
                 /\ ev' = EvStep
                 /\ UNCHANGED ui
  /\ lastOps' = <<>>
  /\ UNCHANGED <<player, frame>>

\* VideoPlayer.play(): with a playable source, and when the host allows it,
\* the element stops being paused.
play(pl, allowed) ==
  IF pl.video /\ allowed /\ pl.src \in {"loading", "ok"}
  THEN [pl EXCEPT !.paused = FALSE] ELSE pl

\* requestReferenceSpace resolves on the live session s: the overlay is
\* shown, xrRenderLoop is registered on xrSession, the end listener is
\* added, the video is played.  Registering on a null or ended session
\* throws.
RefSpaceResolve(s, allowed) ==
  /\ Idle
  /\ s \in host.refWait
  /\ host.sess[s] = "live"
  /\ LET x == app.xrSession
         ok == x # Null /\ host.sess[x] = "live"
     IN  IF ok
         THEN /\ app' = [app EXCEPT !.xrRefSpace = s]
              /\ ui' = [ui EXCEPT !.overlay = TRUE]
              /\ host' = [host EXCEPT !.refWait = @ \ {s},
                                      !.raf[x] = @ + 1,
                                      !.listeners = @ \cup {x}]
              /\ player' = play(player, allowed)
              /\ lastOps' = << [op |-> "raf", ctx |-> "session"] >>
              /\ ev' = EvStep
         ELSE /\ app' = Caught([app EXCEPT !.xrRefSpace = s])
              /\ ui' = [ui EXCEPT !.overlay = TRUE, !.status = StatusError]
              /\ host' = [host EXCEPT !.refWait = @ \ {s}]
              /\ lastOps' = <<>>
              /\ ev' = "startXR_failed"
              /\ UNCHANGED player
  /\ UNCHANGED <<ck, rafPending, frame>>

\* requestReferenceSpace rejects (always so once the session has ended).
RefSpaceReject(s) ==
  /\ Idle
  /\ s \in host.refWait
  /\ host' = [host EXCEPT !.refWait = @ \ {s}]
  /\ app' = Caught(app)
  /\ ui' = [ui EXCEPT !.status = StatusError]
  /\ ev' = "startXR_failed"
  /\ lastOps' = <<>>
  /\ UNCHANGED <<ck, player, rafPending, frame>>


\* onXREnd, the session's end listener: back to preview, the Compositor
\* re-initialized on the preview canvas, the preview loop started, a status
\* shown.  A throw of init or of the loop's first run ends the listener there.
\* x is what the listener leaves: app, ck, ui, rafPending and the calls made.
onXREnd(a, c, u, pl, pending, outcome) ==
  LET a1 == [a EXCEPT !.isXR = FALSE, !.xrSession = Null]
      u1 == [u EXCEPT !.overlay = FALSE]
      c1 == ChromaKeyInit(c, PreviewCanvas, outcome)
      r == loop(FALSE, c1, pl, pending, a1.previewAnimId)
  IN  IF InitThrows(outcome)
      THEN [app |-> a1, ck |-> c1, ui |-> u1, pending |-> pending, ops |-> <<>>,
            threw |-> TRUE]
      ELSE [app |-> [a1 EXCEPT !.previewAnimId = r.animId], ck |-> c1,
            ui |-> IF Threw(r.ops) THEN u1 ELSE [u1 EXCEPT !.status = StatusPlain],
            pending |-> r.pending, ops |-> r.ops, threw |-> Threw(r.ops)]

\* The live session s ends: its pending frame callbacks are dropped and its
\* end listener, if one was added, runs.
SessionEnds(s, outcome) ==
  /\ host.sess[s] = "live"
  /\ host' = [host EXCEPT !.sess[s] = "ended", !.raf[s] = 0]
  /\ IF s \in host.listeners
     THEN /\ rafPending # RafIds
          /\ LET x == onXREnd(app, ck, ui, player, rafPending, outcome)
             IN  /\ app' = x.app
                 /\ ck' = x.ck
                 /\ ui' = x.ui
                 /\ rafPending' = x.pending
                 /\ lastOps' = x.ops
                 /\ ev' = IF x.threw THEN "end_threw" ELSE "end_teardown"
     ELSE /\ outcome = "ok"
          /\ lastOps' = <<>>
          /\ ev' = "end_unheard"
          /\ UNCHANGED <<app, ck, ui, rafPending>>
  /\ UNCHANGED <<player, frame>>

\* The host ends the session on its own.
HostEnd(s, outcome) ==
  /\ Idle
  /\ SessionEnds(s, outcome)

\* An endXR that would run the teardown even with no session to end.
EndXRAlways(outcome) ==
  /\ Idle
  /\ IF app.xrSession # Null /\ host.sess[app.xrSession] = "live"
     THEN SessionEnds(app.xrSession, outcome)
     ELSE /\ rafPending # RafIds
          /\ LET x == onXREnd(app, ck, ui, player, rafPending, outcome)
             IN  /\ app' = x.app
                 /\ ck' = x.ck
                 /\ ui' = x.ui
                 /\ rafPending' = x.pending
                 /\ lastOps' = x.ops
          /\ ev' = "endXR_noSession"
          /\ UNCHANGED <<player, host, frame>>

\* endXR: ends xrSession when there is one; end() on a session that has
\* ended already rejects and changes nothing.
EndXR(outcome) ==
  /\ Idle
  /\ IF app.xrSession # Null /\ host.sess[app.xrSession] = "live"
     THEN SessionEnds(app.xrSession, outcome)
     ELSE /\ outcome = "ok"
          /\ lastOps' = <<>>
          /\ ev' = "endXR_noSession"
          /\ UNCHANGED <<app, ck, ui, player, rafPending, host, frame>>

----------------------------------------------------------------------------
\* The immersive per-frame callback.

\* xrRenderLoop registering itself only after the frame's work.
XRFrameBeginLate(s, pose) ==
  /\ Idle
  /\ host.sess[s] = "live"
  /\ host.raf[s] > 0
  /\ LET x == app.xrSession
         v == player
         fired == [host EXCEPT !.raf[s] = @ - 1]
         got == << [op |-> "getViewerPose", ctx |-> "session", views |-> pose] >>
         clear == << [op |-> "clear", ctx |-> ck.gl, fb |-> app.xrGLLayer, color |-> Transparent] >>
         up == IF v.video /\ ~v.paused THEN updateTexture(ck, v) ELSE <<>>
     IN  IF x = Null
         THEN /\ host' = fired
              /\ lastOps' = <<>>
              /\ ev' = "xrFrame_noSession"
              /\ frame' = IdleFrame
         ELSE IF pose = NoPose
         THEN /\ host' = fired
              /\ lastOps' = got
              /\ ev' = "xrFrame_noPose"
              /\ frame' = IdleFrame
         ELSE IF Threw(up)
         THEN /\ host' = fired
              /\ lastOps' = got \o clear \o up
              /\ ev' = "xrFrame_threw"
              /\ frame' = IdleFrame
         ELSE /\ host' = [fired EXCEPT !.raf[x] = @ + 1]
              /\ lastOps' = got \o clear \o up
                             \o << [op |-> "raf", ctx |-> "session"] >>
              /\ ev' = "xrFrame_views"
              /\ frame' = [active |-> TRUE, views |-> pose, start |-> [u |-> ui, c |-> ck]]
  /\ UNCHANGED <<app, ck, ui, player, rafPending>>

\* xrRenderLoop(time, frame) up to its view loop, for a callback pending on
\* the live session s: return without a session; register for the next
\* frame; return without a pose; clear the layer's framebuffer; upload the
\* video frame when a video exists and plays.
XRFrameBegin(s, pose) ==
  /\ Idle
  /\ host.sess[s] = "live"
  /\ host.raf[s] > 0
  /\ LET x == app.xrSession
         v == player
         fired == [host EXCEPT !.raf[s] = @ - 1]
         reg == << [op |-> "raf", ctx |-> "session"],
                   [op |-> "getViewerPose", ctx |-> "session", views |-> pose] >>
         clear == << [op |-> "clear", ctx |-> ck.gl, fb |-> app.xrGLLayer, color |-> Transparent] >>
         up == IF v.video /\ ~v.paused THEN updateTexture(ck, v) ELSE <<>>
     IN  IF x = Null
         THEN /\ host' = fired
              /\ lastOps' = <<>>
              /\ ev' = "xrFrame_noSession"
              /\ frame' = IdleFrame
         ELSE IF host.sess[x] # "live"
         THEN /\ host' = fired
              /\ lastOps' = <<>>
              /\ ev' = "xrFrame_threw"
              /\ frame' = IdleFrame
         ELSE /\ host' = [fired EXCEPT !.raf[x] = @ + 1]
              /\ IF pose = NoPose
                 THEN /\ lastOps' = reg
                      /\ ev' = "xrFrame_noPose"
                      /\ frame' = IdleFrame
                 ELSE IF ck.gl = NoContext \/ app.xrGLLayer = Null
                 THEN /\ lastOps' = reg
                      /\ ev' = "xrFrame_threw"
                      /\ frame' = IdleFrame
                 ELSE IF Threw(up)
                 THEN /\ lastOps' = reg \o clear \o up
                      /\ ev' = "xrFrame_threw"
                      /\ frame' = IdleFrame
                 ELSE /\ lastOps' = reg \o clear \o up
                      /\ ev' = "xrFrame_views"
                      /\ frame' = [active |-> TRUE, views |-> pose,
                                   start |-> [u |-> ui, c |-> ck]]
  /\ UNCHANGED <<app, ck, ui, player, rafPending>>

\* An xrRenderLoop without its first line: a late invocation goes on to
\* xrSession.requestAnimationFrame, which throws on null and on an ended
\* session, and registers on a live one.
XRFrameStaleUnguarded(s) ==
  /\ Idle
  /\ host.sess[s] = "ended"
  /\ s \in host.listeners
  /\ LET x == app.xrSession
     IN  IF x = Null \/ host.sess[x] # "live"
         THEN /\ ev' = "xrFrame_threw"
              /\ lastOps' = <<>>
              /\ UNCHANGED host
         ELSE /\ host.raf[x] <= 1
              /\ host' = [host EXCEPT !.raf[x] = @ + 1]
              /\ lastOps' = << [op |-> "raf", ctx |-> "session"] >>
              /\ ev' = "xrFrame_threw"
  /\ frame' = IdleFrame
  /\ UNCHANGED <<app, ck, ui, player, rafPending>>

\* xrRenderLoop invoked late: a callback that was pending on the
\* established session s when it ended is run all the same.  It returns at
\* once when xrSession is null.  Otherwise it registers on xrSession, which
\* throws when that session has ended, and then asks the frame of the ended
\* session for a pose, which throws.
XRFrameStale(s) ==
  /\ Idle
  /\ host.sess[s] = "ended"
  /\ s \in host.listeners
  /\ LET x == app.xrSession
     IN  IF x = Null
         THEN /\ ev' = "xrFrame_noSession"
              /\ lastOps' = <<>>
              /\ UNCHANGED host
         ELSE IF host.sess[x] # "live"
         THEN /\ ev' = "xrFrame_threw"
              /\ lastOps' = <<>>
              /\ UNCHANGED host
         ELSE /\ host.raf[x] <= 1
              /\ host' = [host EXCEPT !.raf[x] = @ + 1]
              /\ lastOps' = << [op |-> "raf", ctx |-> "session"] >>
              /\ ev' = "xrFrame_threw"
  /\ frame' = IdleFrame
  /\ UNCHANGED <<app, ck, ui, player, rafPending>>

\* A view loop that would upload the video frame again for every view.
EyeOpsUploading(e) ==
  LET view == View(e)
      vp == getViewport(view)
      p == EyeParams
  IN  << [op |-> "viewport", ctx |-> ck.gl, vp |-> vp] >>
      \o (IF player.video /\ ~player.paused /\ ~player.tainted
          THEN updateTexture(ck, player) ELSE <<>>)
      \o render(p.c, view.projectionMatrix, InverseMatrix(view.transform),
                ModelMatrix(p.u, player), app.xrGLLayer, vp, vp)

\* The calls of one pass of the view loop, for view e of the pose: the
\* viewport, the parameters read, the model matrix built, the draw.
EyeOps(e) ==
  LET view == View(e)
      vp == getViewport(view)
      p == EyeParams
  IN  << [op |-> "viewport", ctx |-> ck.gl, vp |-> vp] >>
      \o render(p.c, view.projectionMatrix, InverseMatrix(view.transform),
                ModelMatrix(p.u, player), app.xrGLLayer, vp, vp)

\* One pass of `for (const view of pose.views)`.
XRFrameEye ==
  /\ frame.active
  /\ lastOps' = lastOps \o EyeOps(Head(frame.views))
  /\ IF Len(frame.views) = 1
     THEN /\ frame' = IdleFrame
          /\ ev' = "xrFrame_done"
     ELSE /\ frame' = [frame EXCEPT !.views = Tail(@)]
          /\ ev' = "xrFrame_views"
  /\ UNCHANGED <<app, ck, ui, player, rafPending, host>>


----------------------------------------------------------------------------
\* UIController: the parameter provider.  Each handler maps the UI state u
\* and the Compositor state c to the pair it leaves.

\* The values the sliders of the page deliver, as the strings of e.target.value.
ToleranceInputs == { <<"0", ".", "5">> }
SmoothingInputs == { <<"0", ".", "2">> }
DistanceInputs == { <<"3", ".", "5">> }
ScaleInputs == { <<"1", ".", "5">> }
MoveDirs == {"left", "right", "up", "down", "closer", "farther"}

Min(a, b) == IF a <= b THEN a ELSE b
Max(a, b) == IF a >= b THEN a ELSE b

\* tolerance slider, and the XR overlay's tolerance slider
toleranceInput(u, c, value) ==
  LET t == ParseFloat(value)
  IN  [u |-> [u EXCEPT !.tolerance = t], c |-> setTolerance(c, t)]

\* smoothing slider
smoothingInput(u, c, value) ==
  LET t == ParseFloat(value)
  IN  [u |-> [u EXCEPT !.smoothing = t], c |-> setSmoothing(c, t)]

\* A color selection whose black rule would lower the tolerance by the
\* limit instead of setting it.
setActiveColorRelative(u, c, color) ==
  LET u1 == [u EXCEPT !.currentColor = color]
      c1 == setKeyColor(c, color)
  IN  IF color = "black" /\ u.tolerance # NaN
      THEN [u |-> [u1 EXCEPT !.tolerance = u.tolerance - BLACK_TOLERANCE_LIMIT],
            c |-> setTolerance(c1, u.tolerance - BLACK_TOLERANCE_LIMIT)]
      ELSE [u |-> u1, c |-> c1]

\* A color selection whose black rule would lower the provider's tolerance
\* and not tell the Compositor.
setActiveColorUnsynced(u, c, color) ==
  LET u1 == [u EXCEPT !.currentColor = color]
      c1 == setKeyColor(c, color)
  IN  IF color = "black" /\ u.tolerance # NaN /\ u.tolerance > BLACK_TOLERANCE_LIMIT
      THEN [u |-> [u1 EXCEPT !.tolerance = BLACK_TOLERANCE], c |-> c1]
      ELSE [u |-> u1, c |-> c1]

\* A color selection whose black rule would also lower a tolerance that is
\* exactly at the limit.
setActiveColorAtLimit(u, c, color) ==
  LET u1 == [u EXCEPT !.currentColor = color]
      c1 == setKeyColor(c, color)
  IN  IF color = "black" /\ u.tolerance # NaN /\ u.tolerance >= BLACK_TOLERANCE_LIMIT
      THEN [u |-> [u1 EXCEPT !.tolerance = BLACK_TOLERANCE],
            c |-> setTolerance(c1, BLACK_TOLERANCE)]
      ELSE [u |-> u1, c |-> c1]

\* setActiveColor(color): black lowers a tolerance above 0.2 to 0.15.
setActiveColor(u, c, color) ==
  LET u1 == [u EXCEPT !.currentColor = color]
      c1 == setKeyColor(c, color)
  IN  IF color = "black" /\ u.tolerance # NaN /\ u.tolerance > BLACK_TOLERANCE_LIMIT
      THEN [u |-> [u1 EXCEPT !.tolerance = BLACK_TOLERANCE],
            c |-> setTolerance(c1, BLACK_TOLERANCE)]
      ELSE [u |-> u1, c |-> c1]

\* The XR overlay's color toggle: the next of green, blue, black.
NextColor(color) == IF color = "green" THEN "blue"
                    ELSE IF color = "blue" THEN "black" ELSE "green"

xrColorToggle(u, c) == setActiveColor(u, c, NextColor(u.currentColor))

\* distance slider, scale slider
distanceInput(u, c, value) == [u |-> [u EXCEPT !.screenDistance = ParseFloat(value)], c |-> c]

scaleInput(u, c, value) == [u |-> [u EXCEPT !.screenScale = ParseFloat(value)], c |-> c]

\* Depth taps that would step without holding the distance in its range.
moveTapUnclamped(u, c, dir) ==
  [u |-> IF dir = "left" THEN [u EXCEPT !.screenOffsetX = @ - MOVE_STEP]
         ELSE IF dir = "right" THEN [u EXCEPT !.screenOffsetX = @ + MOVE_STEP]
         ELSE IF dir = "up" THEN [u EXCEPT !.screenOffsetY = @ + MOVE_STEP]
         ELSE IF dir = "down" THEN [u EXCEPT !.screenOffsetY = @ - MOVE_STEP]
         ELSE IF dir = "closer" THEN [u EXCEPT !.screenDistance = @ - DEPTH_STEP]
         ELSE [u EXCEPT !.screenDistance = @ + DEPTH_STEP],
   c |-> c]

\* A tap on a [data-move] button.
moveTap(u, c, dir) ==
  [u |-> IF dir = "left" THEN [u EXCEPT !.screenOffsetX = @ - MOVE_STEP]
         ELSE IF dir = "right" THEN [u EXCEPT !.screenOffsetX = @ + MOVE_STEP]
         ELSE IF dir = "up" THEN [u EXCEPT !.screenOffsetY = @ + MOVE_STEP]
         ELSE IF dir = "down" THEN [u EXCEPT !.screenOffsetY = @ - MOVE_STEP]
         ELSE IF dir = "closer"
              THEN [u EXCEPT !.screenDistance = Max(MIN_DISTANCE, @ - DEPTH_STEP)]
         ELSE [u EXCEPT !.screenDistance = Min(MAX_DISTANCE, @ + DEPTH_STEP)],
   c |-> c]

\* The resize taps of the XR overlay.
smallerTap(u, c) == [u |-> [u EXCEPT !.screenScale = Max(MIN_SCALE, @ - SCALE_STEP)], c |-> c]

\* A bigger tap that would step without holding the scale in its range.
biggerTapUnclamped(u, c) == [u |-> [u EXCEPT !.screenScale = @ + SCALE_STEP], c |-> c]

biggerTap(u, c) == [u |-> [u EXCEPT !.screenScale = Min(MAX_SCALE, @ + SCALE_STEP)], c |-> c]

\* The inputs of the parameter provider, and what each does.
KeyInputs ==
  { <<"tolerance", v>> : v \in ToleranceInputs }
  \cup { <<"xrTolerance", v>> : v \in ToleranceInputs }
  \cup { <<"smoothing", v>> : v \in SmoothingInputs }
  \cup { <<"color", n>> : n \in KeyColorNames }
  \cup { <<"xrColorToggle", "">> }

PlacementInputs ==
  { <<"distance", v>> : v \in DistanceInputs }
  \cup { <<"scale", v>> : v \in ScaleInputs }
  \cup { <<"move", d>> : d \in MoveDirs }
  \cup { <<"smaller", "">>, <<"bigger", "">> }

ApplyInput(u, c, in) ==
  LET k == in[1]
  IN  IF k \in {"tolerance", "xrTolerance"} THEN toleranceInput(u, c, in[2])
      ELSE IF k = "smoothing" THEN smoothingInput(u, c, in[2])
      ELSE IF k = "color" THEN setActiveColor(u, c, in[2])
      ELSE IF k = "xrColorToggle" THEN xrColorToggle(u, c)
      ELSE IF k = "distance" THEN distanceInput(u, c, in[2])
      ELSE IF k = "scale" THEN scaleInput(u, c, in[2])
      ELSE IF k = "move" THEN moveTap(u, c, in[2])
      ELSE IF k = "smaller" THEN smallerTap(u, c)
      ELSE biggerTap(u, c)

\* The offsets have no limit in the program; the model keeps them within
\* MaxOffsetTaps taps of where they start.
InWindow(u) ==
  /\ Abs(u.screenOffsetX - INIT_OFFSET_X) <= MaxOffsetTaps * MOVE_STEP
  /\ Abs(u.screenOffsetY - INIT_OFFSET_Y) <= MaxOffsetTaps * MOVE_STEP

\* An input event of the page, between two frames.
UIInput(in) ==
  /\ Idle
  /\ LET r == ApplyInput(ui, ck, in)
     IN  /\ InWindow(r.u)
         /\ ui' = r.u
         /\ ck' = r.c
  /\ lastOps' = <<>>
  /\ ev' = EvStep
  /\ UNCHANGED <<app, player, rafPending, host, frame>>

\* An input that takes effect while xrRenderLoop is between two views.
MidFrameInput(in) ==
  /\ frame.active
  /\ host.midInputs < MaxMidInputs
  /\ host' = [host EXCEPT !.midInputs = @ + 1]
  /\ LET r == ApplyInput(ui, ck, in)
     IN  /\ InWindow(r.u)
         /\ <<r.u, r.c>> # <<ui, ck>>
         /\ ui' = r.u
         /\ ck' = r.c
         /\ lastOps' = Append(lastOps, [op |-> "mutate", ctx |-> "ui",
                                        old |-> [u |-> ui, c |-> ck], new |-> r])
  /\ ev' = "midFrame_input"
  /\ UNCHANGED <<app, player, rafPending, frame>>

----------------------------------------------------------------------------
\* VideoPlayer: the frame source.

\* handleLoadVideo with a URL: the element is created when missing, isReady
\* is cleared and the load begins; the element pauses and forgets its size.
LoadVideo ==
  /\ Idle
  /\ ~player.loading
  /\ player' = [player EXCEPT !.video = TRUE, !.isReady = FALSE, !.loading = TRUE,
                              !.paused = TRUE, !.tainted = FALSE, !.src = "loading",
                              !.videoWidth = 0, !.videoHeight = 0]
  /\ ui' = [ui EXCEPT !.status = StatusPlain]
  /\ lastOps' = <<>>
  /\ ev' = EvStep
  /\ UNCHANGED <<app, ck, rafPending, host, frame>>

\* The load resolves, with crossOrigin (withCors) or by the last resort
\* without it, which leaves the video tainted; then the video is played.
LoadResolve(withCors, size, allowed) ==
  /\ Idle
  /\ player.loading
  /\ player' = play([player EXCEPT !.isReady = TRUE, !.loading = FALSE, !.src = "ok",
                                  !.tainted = ~withCors,
                                  !.videoWidth = size[1], !.videoHeight = size[2]],
                    allowed)
  /\ ui' = [ui EXCEPT !.status = StatusSuccess]
  /\ lastOps' = <<>>
  /\ ev' = EvStep
  /\ UNCHANGED <<app, ck, rafPending, host, frame>>

\* Every strategy of the load failed.
LoadReject ==
  /\ Idle
  /\ player.loading
  /\ player' = [player EXCEPT !.isReady = FALSE, !.loading = FALSE, !.src = "error"]
  /\ ui' = [ui EXCEPT !.status = StatusError]
  /\ lastOps' = <<>>
  /\ ev' = EvStep
  /\ UNCHANGED <<app, ck, rafPending, host, frame>>

\* togglePlayPause
TogglePlayPause(allowed) ==
  /\ Idle
  /\ player.video
  /\ player' = IF player.paused THEN play(player, allowed)
               ELSE [player EXCEPT !.paused = TRUE]
  /\ player' # player
  /\ lastOps' = <<>>
  /\ ev' = EvStep
  /\ UNCHANGED <<app, ck, ui, rafPending, host, frame>>

----------------------------------------------------------------------------
\* The state after DOMContentLoaded: UIController.init, ChromaKey.init on
\* the preview canvas, the first run of the preview loop (no video yet).

Init ==
  /\ app = [xrSession |-> Null, xrRefSpace |-> Null, xrGLLayer |-> Null,
            previewAnimId |-> 1, isXR |-> FALSE]
  /\ ck = [gl |-> PreviewCanvas, program |-> PreviewCanvas,
           videoTexture |-> PreviewCanvas, quadVAO |-> PreviewCanvas,
           currentKeyColor |-> KEY_COLORS["green"],
           currentTolerance |-> INIT_TOLERANCE,
           currentSmoothing |-> INIT_SMOOTHING]
  /\ ui = [currentColor |-> "green", tolerance |-> INIT_TOLERANCE,
           smoothing |-> INIT_SMOOTHING, screenDistance |-> INIT_DISTANCE,
           screenScale |-> INIT_SCALE, screenOffsetX |-> INIT_OFFSET_X,
           screenOffsetY |-> INIT_OFFSET_Y, status |-> StatusPlain, overlay |-> FALSE]
  /\ player = [video |-> FALSE, isReady |-> FALSE, loading |-> FALSE, paused |-> TRUE,
               tainted |-> FALSE, src |-> "empty", videoWidth |-> 0, videoHeight |-> 0]
  /\ rafPending = {1}
  /\ \E xr \in BOOLEAN :
       host = [xrAvailable |-> xr, sess |-> [s \in Sessions |-> "none"],
               raf |-> [s \in Sessions |-> 0], listeners |-> {}, nSup |-> 0,
               reqPending |-> FALSE, refWait |-> {}, midInputs |-> 0]
  /\ frame = IdleFrame
  /\ lastOps = << [op |-> "raf", ctx |-> "window"] >>
  /\ ev = "init"

Next ==
  \/ \E id \in RafIds : PreviewFrame(id)
  \/ StartXR
  \/ \E b \in BOOLEAN : SupportedResolve(b)
  \/ SupportedReject
  \/ SessionReject
  \/ \E o \in InitOutcomes, l \in BOOLEAN : SessionGrant(o, l)
  \/ \E s \in Sessions, a \in BOOLEAN : RefSpaceResolve(s, a)
  \/ \E s \in Sessions : RefSpaceReject(s)
  \/ \E s \in Sessions, o \in InitOutcomes : HostEnd(s, o)
  \/ \E o \in InitOutcomes : EndXR(o)
  \/ \E s \in Sessions, p \in ViewSeqs \cup {NoPose} : XRFrameBegin(s, p)
  \/ XRFrameEye
  \/ \E in \in KeyInputs : UIInput(in)
  \/ LoadVideo
  \/ \E c \in BOOLEAN, z \in VideoSizes, a \in BOOLEAN : LoadResolve(c, z, a)
  \/ LoadReject
  \/ \E a \in BOOLEAN : TogglePlayPause(a)

Spec == Init /\ [][Next]_vars

----------------------------------------------------------------------------
\* The same program with an input event allowed between two views of one
\* immersive frame: the entry and exit of the session, the frames, and the
\* inputs of the parameter provider taking effect mid-frame.

MidInputs ==
  { <<"tolerance", v>> : v \in ToleranceInputs }
  \cup { <<"smoothing", v>> : v \in SmoothingInputs }
  \cup { <<"xrColorToggle", "">> }
  \cup { <<"distance", v>> : v \in DistanceInputs }
  \cup { <<"scale", v>> : v \in ScaleInputs }
  \cup { <<"move", "left">>, <<"move", "up">> }

NextMid ==
  \/ StartXR
  \/ \E b \in BOOLEAN : SupportedResolve(b)
  \/ \E o \in InitOutcomes, l \in BOOLEAN : SessionGrant(o, l)
  \/ \E s \in Sessions, a \in BOOLEAN : RefSpaceResolve(s, a)
  \/ \E s \in Sessions, o \in InitOutcomes : HostEnd(s, o)
  \/ \E s \in Sessions, p \in ViewSeqs \cup {NoPose} : XRFrameBegin(s, p)
  \/ XRFrameEye
  \/ \E in \in MidInputs : MidFrameInput(in)

SpecMid == Init /\ [][NextMid]_vars

----------------------------------------------------------------------------
\* The range sliders of the page.  A range element delivers its value held
\* within its min and max; the page's ranges are those the parameters are
\* documented to have: distance above 0.3 up to 10, scale 0.2 to 5,
\* tolerance and smoothing from 0 to 1.

SliderRange(kind) ==
  IF kind = "distance" THEN [min |-> MIN_DISTANCE + 1, max |-> MAX_DISTANCE]
  ELSE IF kind = "scale" THEN [min |-> MIN_SCALE, max |-> MAX_SCALE]
  ELSE [min |-> 0, max |-> 100]

\* The values asked of a slider (dragged, or set by a script), in hundredths.
SliderRequests == {0, 150, 1200}

\* e.target.value of the slider after a request: the request held in range,
\* as a string.
RangeValue(kind, requested) ==
  NumberToString(Max(SliderRange(kind).min, Min(SliderRange(kind).max, requested)))

\* The input event of a slider.
SliderInput(kind, requested) == UIInput(<<kind, RangeValue(kind, requested)>>)

----------------------------------------------------------------------------
\* The placement of the quad: the program with a session entered, videos of
\* several sizes, the placement sliders and the move taps, and the frames.

\* createQuad: the corners of the two triangles, all at z = 0.
QuadCorners == { <<0 - 1, 0 - 1>>, <<1, 0 - 1>>, <<1, 1>>, <<0 - 1, 1>> }

\* The sizes a decoded video reports here.
PlacedVideoSizes == { <<4, 3>>, <<16, 9>> }

\* gl_Position's model part: the column-major matrix m applied to (x, y, z, w).
MatVec(m, v) ==
  [ i \in 1..4 |-> RAdd(RAdd(RMul(m[i], v[1]), RMul(m[4 + i], v[2])),
                        RAdd(RMul(m[8 + i], v[3]), RMul(m[12 + i], v[4]))) ]

NextPlace ==
  \/ StartXR
  \/ \E b \in BOOLEAN : SupportedResolve(b)
  \/ \E o \in InitOutcomes, l \in BOOLEAN : SessionGrant(o, l)
  \/ \E s \in Sessions, a \in BOOLEAN : RefSpaceResolve(s, a)
  \/ \E s \in Sessions, p \in ViewSeqs \cup {NoPose} : XRFrameBegin(s, p)
  \/ XRFrameEye
  \/ \E k \in {"distance", "scale"}, r \in SliderRequests \ {0} : SliderInput(k, r)
  \/ \E d \in {"right", "down"} : UIInput(<<"move", d>>)
  \/ LoadVideo
  \/ \E z \in PlacedVideoSizes, a \in BOOLEAN : LoadResolve(TRUE, z, a)

SpecPlace == Init /\ [][NextPlace]_vars

----------------------------------------------------------------------------
\* The placement controls alone: the distance and scale sliders, the depth
\* taps and the resize taps, in any order and number.

\* getScreenDistance, getScreenScale
getScreenDistance(u) == u.screenDistance

getScreenScale(u) == u.screenScale

NextUI ==
  \/ \E k \in {"distance", "scale"}, r \in SliderRequests : SliderInput(k, r)
  \/ \E in \in { <<"move", "closer">>, <<"move", "farther">>,
                 <<"smaller", "">>, <<"bigger", "">> } : UIInput(in)

SpecUI == Init /\ [][NextUI]_vars

----------------------------------------------------------------------------
\* The key controls and the fragment stage: the tolerance, XR-tolerance and
\* smoothing sliders and the color selection, and the pixels of a preview
\* draw shaded with the settings those left.

\* The key distances of the pixels shaded, in hundredths.
KeyDistances == {0, 5, 6, 35, 36, 40, 45, 100}

\* One pixel of a draw at key distance diff: the uniforms are those render
\* sets, the alpha is derived, the pixel is discarded or written.
Fragment(diff) ==
  /\ Idle
  /\ Len(lastOps) < MaxFragments
  /\ \A i \in 1..Len(lastOps) : lastOps[i].op = "fragment"
  /\ LET dr == render(ck, IDENTITY, IDENTITY, IDENTITY, Null, NoViewport, CanvasViewport)
     IN  /\ dr # <<>>
         /\ dr[1].tolerance # NaN /\ dr[1].smoothing # NaN
         /\ \E alpha \in AlphaOutcomes(dr[1].tolerance, dr[1].smoothing, diff) :
              lastOps' = Append(lastOps,
                                [op |-> "fragment", ctx |-> dr[1].ctx, diff |-> diff,
                                 tolerance |-> dr[1].tolerance,
                                 smoothing |-> dr[1].smoothing,
                                 alpha |-> alpha, written |-> ~Discards(alpha)])
  /\ ev' = EvStep
  /\ UNCHANGED <<app, ck, ui, player, rafPending, host, frame>>

NextShade ==
  \/ \E k \in {"tolerance", "xrTolerance", "smoothing"}, r \in SliderRequests :
       SliderInput(k, r)
  \/ \E in \in KeyInputs : UIInput(in)
  \/ \E d \in KeyDistances : Fragment(d)

SpecShade == Init /\ [][NextShade]_vars

\* The pixels shaded since the last input.
Fragments == SelectSeq(lastOps, LAMBDA o : o.op = "fragment")

----------------------------------------------------------------------------
\* The Compositor on its own: the ChromaKey module as it is when its script
\* has run, and its exported functions called in any order by any caller.

\* The module's state before any init.
FreshChromaKey ==
  [gl |-> NoContext, program |-> NoContext, videoTexture |-> NoContext,
   quadVAO |-> NoContext, currentKeyColor |-> KEY_COLORS["green"],
   currentTolerance |-> INIT_TOLERANCE, currentSmoothing |-> INIT_SMOOTHING]

InitCK ==
  /\ ck = FreshChromaKey
  /\ app = [xrSession |-> Null, xrRefSpace |-> Null, xrGLLayer |-> Null,
            previewAnimId |-> Null, isXR |-> FALSE]
  /\ ui = [currentColor |-> "green", tolerance |-> INIT_TOLERANCE,
           smoothing |-> INIT_SMOOTHING, screenDistance |-> INIT_DISTANCE,
           screenScale |-> INIT_SCALE, screenOffsetX |-> INIT_OFFSET_X,
           screenOffsetY |-> INIT_OFFSET_Y, status |-> StatusPlain, overlay |-> FALSE]
  /\ player = [video |-> TRUE, isReady |-> TRUE, loading |-> FALSE, paused |-> FALSE,
               tainted |-> FALSE, src |-> "ok", videoWidth |-> 4, videoHeight |-> 3]
  /\ rafPending = {}
  /\ host = [xrAvailable |-> FALSE, sess |-> [s \in Sessions |-> "none"],
             raf |-> [s \in Sessions |-> 0], listeners |-> {}, nSup |-> 0,
             reqPending |-> FALSE, refWait |-> {}, midInputs |-> 0]
  /\ frame = IdleFrame
  /\ lastOps = <<>>
  /\ ev = "load"

\* ChromaKey.init(canvas, ctxAttrs)
CKInit(canvas, h) ==
  /\ ck' = ChromaKeyInit(ck, canvas, InitOutcome(h))
  /\ lastOps' = InitCalls(canvas, h)
  /\ ev' = IF InitThrows(InitOutcome(h)) THEN "init_threw" ELSE "init_returned"
  /\ UNCHANGED <<app, ui, player, rafPending, host, frame>>

\* ChromaKey.updateTexture(video), the video loaded with CORS or without.
CKUpdateTexture(tainted) ==
  /\ lastOps' = updateTexture(ck, [player EXCEPT !.tainted = tainted])
  /\ ev' = IF Threw(lastOps') THEN "call_threw" ELSE "updateTexture"
  /\ UNCHANGED <<app, ck, ui, player, rafPending, host, frame>>

\* ChromaKey.render(IDENTITY, IDENTITY, IDENTITY)
CKRender ==
  /\ lastOps' = render(ck, IDENTITY, IDENTITY, IDENTITY, Null, NoViewport, CanvasViewport)
  /\ ev' = "render"
  /\ UNCHANGED <<app, ck, ui, player, rafPending, host, frame>>

\* ChromaKey.renderPreview(video)
CKRenderPreview(tainted) ==
  /\ lastOps' = renderPreview(ck, [player EXCEPT !.tainted = tainted])
  /\ ev' = IF Threw(lastOps') THEN "call_threw" ELSE "renderPreview"
  /\ UNCHANGED <<app, ck, ui, player, rafPending, host, frame>>

\* The sizes of a canvas, width and height: the default backing size and a
\* displayed size the layout gives.
CanvasSizes == { <<300, 150>>, <<640, 360>> }

\* ChromaKey.renderPreview(video) with the canvas sizes of the moment.
CKRenderPreviewOn(tainted, backing, displayed) ==
  /\ lastOps' = renderPreviewOn(ck, [player EXCEPT !.tainted = tainted], backing, displayed)
  /\ ev' = IF backing # displayed THEN "preview_differs" ELSE "preview_fits"
  /\ UNCHANGED <<app, ck, ui, player, rafPending, host, frame>>

\* ChromaKey.render with a framebuffer or none, a viewport or none, while
\* the viewport `bound` is the one the context has: the call, then what
\* render does.
CKRenderWith(framebuffer, viewport, bound) ==
  /\ lastOps' = << [op |-> "call", ctx |-> "caller", fb |-> framebuffer,
                    viewport |-> viewport, bound |-> bound] >>
                \o render(ck, IDENTITY, IDENTITY, IDENTITY, framebuffer, viewport, bound)
  /\ ev' = "renderWith"
  /\ UNCHANGED <<app, ck, ui, player, rafPending, host, frame>>

\* ChromaKey.setKeyColor(name)
CKSetKeyColor(name) ==
  /\ ck' = setKeyColor(ck, name)
  /\ ck' # ck
  /\ lastOps' = <<>>
  /\ ev' = EvStep
  /\ UNCHANGED <<app, ui, player, rafPending, host, frame>>

NextCK ==
  \/ \E canvas \in {PreviewCanvas, XRCanvas}, h \in InitAnswers : CKInit(canvas, h)
  \/ \E t \in BOOLEAN : CKUpdateTexture(t)
  \/ CKRender
  \/ \E t \in BOOLEAN : CKRenderPreview(t)
  \/ \E t \in BOOLEAN, b \in CanvasSizes, d \in CanvasSizes : CKRenderPreviewOn(t, b, d)
  \/ \E fb \in {Null} \cup Sessions, e \in Eyes :
       \E vp \in {NoViewport, getViewport(View(e))},
          bound \in {CanvasViewport, getViewport(View(e))} : CKRenderWith(fb, vp, bound)
  \/ \E n \in KeyColorNames : CKSetKeyColor(n)

SpecCK == InitCK /\ [][NextCK]_vars

\* No init call has returned yet: program is assigned only by an init that
\* got its context, both shaders and the link.
NotInitialized == ck.program = NoContext

----------------------------------------------------------------------------
\* Leaving the immersive session, with a host that may still run a frame
\* callback of a session that has ended.

NextLate ==
  \/ StartXR
  \/ \E b \in BOOLEAN : SupportedResolve(b)
  \/ \E o \in InitOutcomes, l \in BOOLEAN : SessionGrant(o, l)
  \/ \E s \in Sessions, a \in BOOLEAN : RefSpaceResolve(s, a)
  \/ \E s \in Sessions, o \in InitOutcomes : HostEnd(s, o)
  \/ \E o \in InitOutcomes : EndXR(o)
  \/ \E s \in Sessions, p \in ViewSeqs \cup {NoPose} : XRFrameBegin(s, p)
  \/ XRFrameEye
  \/ \E s \in Sessions : XRFrameStale(s)
  \/ LoadVideo
  \/ \E c \in BOOLEAN, z \in VideoSizes, a \in BOOLEAN : LoadResolve(c, z, a)

SpecLate == Init /\ [][NextLate]_vars

----------------------------------------------------------------------------
\* VideoPlayer.load, strategy by strategy, while the preview loop runs.  The
\* player record carries the progress of the load in its field `load`: the
\* strategies started, the outcome of each one that has ended, how the
\* promise was settled, and `elem`, what the source now assigned to the video
\* element has done ("loading" until it fires canplay or error).

\* The proxies, in the order of the array.
CORS_PROXIES == << "proxy1", "proxy2" >>

\* How a loadDirect promise settles: the canplay event, the error event, or
\* the 10 s timer.
LoadOutcomes == {"canplay", "error", "timeout"}

NoLoad ==
  [stage |-> "idle", i |-> 0, started |-> <<>>, settled |-> <<>>,
   result |-> "none", by |-> "none", currentBlobUrl |-> FALSE, blobs |-> 0,
   elem |-> "none"]

\* cleanup(): the blob URL in currentBlobUrl, if any, is revoked and
\* forgotten.  l.blobs counts the blob URLs created and not revoked.
cleanup(l) ==
  [l EXCEPT !.currentBlobUrl = FALSE,
            !.blobs = IF l.currentBlobUrl THEN @ - 1 ELSE @]

\* A load that gives up the proxies: after the first failure it goes to the
\* direct load without crossOrigin.
tryLastResortFirst(l, i) ==
  [l EXCEPT !.stage = "last", !.i = 0,
            !.settled = Append(@, "failed"),
            !.started = Append(@, "direct_nocors"),
            !.elem = "loading"]

\* The strategy in progress has failed and the loop is at index i: proxy i
\* is fetched when there is one, else the last resort begins, which assigns
\* the URL to the element again.
tryProxies(l, i) ==
  IF i <= Len(CORS_PROXIES)
  THEN [l EXCEPT !.stage = "fetch", !.i = i,
                 !.settled = Append(@, "failed"),
                 !.started = Append(@, CORS_PROXIES[i])]
  ELSE [l EXCEPT !.stage = "last", !.i = 0,
                 !.settled = Append(@, "failed"),
                 !.started = Append(@, "direct_nocors"),
                 !.elem = "loading"]

\* A loadDirect promise rejects: the error event clears isReady (onError),
\* the timer only rejects and the source stays assigned, still loading.
loadDirectFailed(pl, outcome) ==
  [pl EXCEPT !.isReady = IF outcome = "error" THEN FALSE ELSE @,
             !.load.elem = IF outcome = "error" THEN "error" ELSE @]

\* canplay: isReady is set, the promise resolves, load returns the video;
\* handleLoadVideo reports it and plays.
loadReturns(pl, withCors, size, allowed) ==
  play([pl EXCEPT !.isReady = TRUE, !.loading = FALSE, !.src = "ok",
                  !.tainted = ~withCors,
                  !.videoWidth = size[1], !.videoHeight = size[2],
                  !.load.settled = Append(@, "ok"),
                  !.load.result = "resolved",
                  !.load.by = pl.load.started[Len(pl.load.started)],
                  !.load.stage = "idle",
                  !.load.elem = "canplay"],
       allowed)

\* handleLoadVideo with a URL, up to the first await of load: create,
\* cleanup, isReady cleared, loadDirect(url, true) begun.
LoadBegin ==
  /\ Idle
  /\ player.load.stage = "idle"
  /\ player' = [player EXCEPT !.video = TRUE, !.isReady = FALSE, !.loading = TRUE,
                              !.paused = TRUE, !.tainted = FALSE, !.src = "loading",
                              !.videoWidth = 0, !.videoHeight = 0,
                              !.load = [NoLoad EXCEPT !.stage = "direct",
                                                      !.started = << "direct_cors" >>,
                                                      !.result = "pending",
                                                      !.elem = "loading",
                                                      !.blobs = cleanup(player.load).blobs]]
  /\ ui' = [ui EXCEPT !.status = StatusPlain]
  /\ lastOps' = <<>>
  /\ ev' = "load_begin"
  /\ UNCHANGED <<app, ck, rafPending, host, frame>>

\* loadDirect(url, true) settles.
DirectSettle(outcome, size, allowed) ==
  /\ Idle
  /\ player.load.stage = "direct"
  /\ IF outcome = "canplay"
     THEN /\ player' = loadReturns(player, TRUE, size, allowed)
          /\ ui' = [ui EXCEPT !.status = StatusSuccess]
          /\ ev' = "load_resolved"
     ELSE /\ player' = [loadDirectFailed(player, outcome) EXCEPT
                          !.load = tryProxies(@, 1)]
          /\ ui' = [ui EXCEPT !.status = StatusPlain]
          /\ ev' = "load_next"
  /\ lastOps' = <<>>
  /\ UNCHANGED <<app, ck, rafPending, host, frame>>

\* fetchAsBlob settles for proxy i: a blob URL is created and assigned to
\* currentBlobUrl, whatever that held, after which loadDirect(blobUrl, true) begins; or a
\* rejection.
FetchSettle(ok) ==
  /\ Idle
  /\ player.load.stage = "fetch"
  /\ IF ok
     THEN /\ player.load.blobs < MaxBlobs
          /\ player' = [player EXCEPT !.load.stage = "blob",
                                      !.load.currentBlobUrl = TRUE,
                                      !.load.blobs = @ + 1,
                                      !.load.elem = "loading"]
          /\ ev' = "load_fetched"
     ELSE /\ player' = [player EXCEPT !.load = tryProxies(@, @.i + 1)]
          /\ ev' = "load_next"
  /\ ui' = [ui EXCEPT !.status = StatusPlain]
  /\ lastOps' = <<>>
  /\ UNCHANGED <<app, ck, rafPending, host, frame>>

\* loadDirect(blobUrl, true) settles for proxy i.
BlobSettle(outcome, size, allowed) ==
  /\ Idle
  /\ player.load.stage = "blob"
  /\ IF outcome = "canplay"
     THEN /\ player' = loadReturns(player, TRUE, size, allowed)
          /\ ui' = [ui EXCEPT !.status = StatusSuccess]
          /\ ev' = "load_resolved"
     ELSE /\ player' = [loadDirectFailed(player, outcome) EXCEPT
                          !.load = tryProxies(@, @.i + 1)]
          /\ ui' = [ui EXCEPT !.status = StatusPlain]
          /\ ev' = "load_next"
  /\ lastOps' = <<>>
  /\ UNCHANGED <<app, ck, rafPending, host, frame>>

\* loadDirect(url, false) settles: the video, tainted, or the Error that
\* load throws and handleLoadVideo reports.
LastSettle(outcome, size, allowed) ==
  /\ Idle
  /\ player.load.stage = "last"
  /\ IF outcome = "canplay"
     THEN /\ player' = loadReturns(player, FALSE, size, allowed)
          /\ ui' = [ui EXCEPT !.status = StatusSuccess]
          /\ ev' = "load_resolved"
     ELSE /\ player' = [loadDirectFailed(player, outcome) EXCEPT
                          !.loading = FALSE, !.src = "error",
                          !.load.settled = Append(@, "failed"),
                          !.load.result = "rejected",
                          !.load.stage = "idle"]
          /\ ui' = [ui EXCEPT !.status = StatusError]
          /\ ev' = "load_rejected"
  /\ lastOps' = <<>>
  /\ UNCHANGED <<app, ck, rafPending, host, frame>>

\* The source assigned by a loadDirect whose timer has fired goes on loading
\* and fires canplay or error after all.  The listeners that loadDirect
\* added are still on the element (cleanup_listeners removes onCanPlay and
\* onError, which were never added: the listeners are the anonymous
\* wrappers), so they run onCanPlay or onError: isReady is assigned, the
\* settled promise is not.
LateEvent(kind) ==
  /\ Idle
  /\ player.load.elem = "loading"
  /\ player.load.stage \notin {"direct", "blob", "last"}
  /\ player' = [player EXCEPT !.isReady = (kind = "canplay"),
                              !.load.elem = kind]
  /\ lastOps' = <<>>
  /\ ev' = "load_late_event"
  /\ UNCHANGED <<app, ck, ui, rafPending, host, frame>>

InitLoad ==
  /\ app = [xrSession |-> Null, xrRefSpace |-> Null, xrGLLayer |-> Null,
            previewAnimId |-> 1, isXR |-> FALSE]
  /\ ck = [gl |-> PreviewCanvas, program |-> PreviewCanvas,
           videoTexture |-> PreviewCanvas, quadVAO |-> PreviewCanvas,
           currentKeyColor |-> KEY_COLORS["green"],
           currentTolerance |-> INIT_TOLERANCE,
           currentSmoothing |-> INIT_SMOOTHING]
  /\ ui = [currentColor |-> "green", tolerance |-> INIT_TOLERANCE,
           smoothing |-> INIT_SMOOTHING, screenDistance |-> INIT_DISTANCE,
           screenScale |-> INIT_SCALE, screenOffsetX |-> INIT_OFFSET_X,
           screenOffsetY |-> INIT_OFFSET_Y, status |-> StatusPlain, overlay |-> FALSE]
  /\ player = [video |-> FALSE, isReady |-> FALSE, loading |-> FALSE, paused |-> TRUE,
               tainted |-> FALSE, src |-> "empty", videoWidth |-> 0, videoHeight |-> 0,
               load |-> NoLoad]
  /\ rafPending = {1}
  /\ host = [xrAvailable |-> FALSE, sess |-> [s \in Sessions |-> "none"],
             raf |-> [s \in Sessions |-> 0], listeners |-> {}, nSup |-> 0,
             reqPending |-> FALSE, refWait |-> {}, midInputs |-> 0]
  /\ frame = IdleFrame
  /\ lastOps = << [op |-> "raf", ctx |-> "window"] >>
  /\ ev = "init"

NextLoad ==
  \/ LoadBegin
  \/ \E id \in RafIds : PreviewFrame(id)
  \/ \E o \in LoadOutcomes, z \in PlacedVideoSizes, a \in BOOLEAN : DirectSettle(o, z, a)
  \/ \E ok \in BOOLEAN : FetchSettle(ok)
  \/ \E o \in LoadOutcomes, z \in PlacedVideoSizes, a \in BOOLEAN : BlobSettle(o, z, a)
  \/ \E o \in LoadOutcomes, z \in PlacedVideoSizes, a \in BOOLEAN : LastSettle(o, z, a)
  \/ \E k \in {"canplay", "error"} : LateEvent(k)
  \/ \E a \in BOOLEAN : TogglePlayPause(a)

SpecLoad == InitLoad /\ [][NextLoad]_vars

----------------------------------------------------------------------------
\* The mode transitions with the controls in use: entering the session with
\* every way it can fail, leaving it, and the key and placement inputs
\* between those steps.

ModeInputs ==
  KeyInputs \cup { <<"distance", v>> : v \in DistanceInputs }
            \cup { <<"scale", v>> : v \in ScaleInputs }
            \cup { <<"move", "right">> }

NextMode ==
  \/ StartXR
  \/ \E b \in BOOLEAN : SupportedResolve(b)
  \/ SupportedReject
  \/ SessionReject
  \/ \E o \in InitOutcomes, l \in BOOLEAN : SessionGrant(o, l)
  \/ \E s \in Sessions, a \in BOOLEAN : RefSpaceResolve(s, a)
  \/ \E s \in Sessions : RefSpaceReject(s)
  \/ \E s \in Sessions, o \in InitOutcomes : HostEnd(s, o)
  \/ \E o \in InitOutcomes : EndXR(o)
  \/ \E in \in ModeInputs : UIInput(in)

SpecMode == Init /\ [][NextMode]_vars

----------------------------------------------------------------------------
\* The color selection with the sliders set around the limit of its black
\* rule: the color buttons, the XR color toggle, and the tolerance,
\* XR-tolerance and smoothing sliders.

\* The values asked of those sliders here, in hundredths.
LimitRequests == {0, BLACK_TOLERANCE_LIMIT, BLACK_TOLERANCE_LIMIT + 1, 150}

NextSelect ==
  \/ \E k \in {"tolerance", "xrTolerance", "smoothing"}, r \in LimitRequests :
       SliderInput(k, r)
  \/ \E in \in KeyInputs : UIInput(in)

SpecColor == Init /\ [][NextSelect]_vars

----------------------------------------------------------------------------
\* onTap: one handler attached to one element, here the XR color toggle.
\* The provider's record carries the closure of onTap in its field `tap`:
\* handled, whether the 300 ms timer is pending, the events of the physical
\* tap in progress that are still to be dispatched, and what became of those
\* dispatched (sinceReset: the timer has fired since the last invocation).

NoTap ==
  [handled |-> FALSE, timer |-> FALSE, queue |-> <<>>, log |-> <<>>,
   fresh |-> FALSE, sinceReset |-> TRUE, startedHandled |-> FALSE]

\* The events one physical tap produces, in order: a touch (its click
\* suppressed by preventDefault or not), a controller ray or a mouse, a
\* synthetic click.
TapEventSeqs ==
  { << "pointerup", "touchend", "click" >>, << "pointerup", "touchend" >>,
    << "pointerup", "click" >>, << "click" >> }

\* A wrap that would not latch: every event reaches the handler.
wrapUnlatched(t) ==
  [t |-> [t EXCEPT !.timer = TRUE], invoke |-> TRUE]

\* wrap(e): nothing when handled; else handled is set, the handler is
\* called and the reset is scheduled.
wrap(t) ==
  IF t.handled THEN [t |-> t, invoke |-> FALSE]
  ELSE [t |-> [t EXCEPT !.handled = TRUE, !.timer = TRUE], invoke |-> TRUE]

\* A physical tap on the element: its events are queued by the host.
TapBegin(events) ==
  /\ Idle
  /\ ui.tap.queue = <<>>
  /\ ui' = [ui EXCEPT !.tap.queue = events, !.tap.log = <<>>, !.tap.fresh = FALSE,
                      !.tap.startedHandled = ui.tap.handled]
  /\ lastOps' = <<>>
  /\ ev' = "tap"
  /\ UNCHANGED <<app, ck, player, rafPending, host, frame>>

\* The next event of the tap is dispatched to wrap; the handler is the
\* color toggle's.
TapEvent ==
  /\ Idle
  /\ ui.tap.queue # <<>>
  /\ LET t == ui.tap
         w == wrap(t)
         r == IF w.invoke THEN xrColorToggle(ui, ck) ELSE [u |-> ui, c |-> ck]
     IN  /\ ui' = [r.u EXCEPT !.tap =
                     [w.t EXCEPT !.queue = Tail(t.queue),
                                 !.log = Append(t.log, [type |-> Head(t.queue),
                                                        invoked |-> w.invoke,
                                                        afterReset |-> t.sinceReset]),
                                 !.fresh = IF w.invoke THEN TRUE ELSE @,
                                 !.sinceReset = IF w.invoke THEN FALSE ELSE @]]
         /\ ck' = r.c
         /\ ev' = IF w.invoke THEN "tap_invoked" ELSE "tap_swallowed"
  /\ lastOps' = <<>>
  /\ UNCHANGED <<app, player, rafPending, host, frame>>

\* The 300 ms timer fires: handled is cleared.  The events of one tap are
\* dispatched within milliseconds, so the timer that an event of a tap set
\* does not fire before that tap's last event.
TapReset ==
  /\ Idle
  /\ ui.tap.timer
  /\ ~(ui.tap.fresh /\ ui.tap.queue # <<>>)
  /\ ui' = [ui EXCEPT !.tap.handled = FALSE, !.tap.timer = FALSE,
                      !.tap.sinceReset = TRUE]
  /\ lastOps' = <<>>
  /\ ev' = "tap_reset"
  /\ UNCHANGED <<app, ck, player, rafPending, host, frame>>

InitTap ==
  /\ app = [xrSession |-> Null, xrRefSpace |-> Null, xrGLLayer |-> Null,
            previewAnimId |-> 1, isXR |-> FALSE]
  /\ ck = [gl |-> PreviewCanvas, program |-> PreviewCanvas,
           videoTexture |-> PreviewCanvas, quadVAO |-> PreviewCanvas,
           currentKeyColor |-> KEY_COLORS["green"],
           currentTolerance |-> INIT_TOLERANCE,
           currentSmoothing |-> INIT_SMOOTHING]
  /\ ui = [currentColor |-> "green", tolerance |-> INIT_TOLERANCE,
           smoothing |-> INIT_SMOOTHING, screenDistance |-> INIT_DISTANCE,
           screenScale |-> INIT_SCALE, screenOffsetX |-> INIT_OFFSET_X,
           screenOffsetY |-> INIT_OFFSET_Y, status |-> StatusPlain, overlay |-> FALSE,
           tap |-> NoTap]
  /\ player = [video |-> FALSE, isReady |-> FALSE, loading |-> FALSE, paused |-> TRUE,
               tainted |-> FALSE, src |-> "empty", videoWidth |-> 0, videoHeight |-> 0]
  /\ rafPending = {1}
  /\ host = [xrAvailable |-> FALSE, sess |-> [s \in Sessions |-> "none"],
             raf |-> [s \in Sessions |-> 0], listeners |-> {}, nSup |-> 0,
             reqPending |-> FALSE, refWait |-> {}, midInputs |-> 0]
  /\ frame = IdleFrame
  /\ lastOps = << [op |-> "raf", ctx |-> "window"] >>
  /\ ev = "init"

NextTap ==
  \/ \E es \in TapEventSeqs : TapBegin(es)
  \/ TapEvent
  \/ TapReset

SpecTap == InitTap /\ [][NextTap]_vars

----------------------------------------------------------------------------
\* Reading the calls of the handler that ran last.

IsDraw(o) == o.op = "draw"
IsUpload(o) == o.op = "upload"
IsClear(o) == o.op = "clear"

Draws == SelectSeq(lastOps, IsDraw)
Uploads == SelectSeq(lastOps, IsUpload)
Clears == SelectSeq(lastOps, IsClear)

\* The positions in lastOps of the calls of one kind.
Positions(kind) == { i \in 1..Len(lastOps) : lastOps[i].op = kind }

\* The views of the pose the frame that ran last was given; none otherwise.
TickViews == IF Len(lastOps) >= 2 /\ lastOps[2].op = "getViewerPose"
             THEN lastOps[2].views ELSE NoPose

\* An immersive frame has run to its end, or to a throw.
TickEnded == ev \in {"xrFrame_done", "xrFrame_threw"}

\* A startXR call is between two of its awaits.
EntryInFlight == host.nSup > 0 \/ host.reqPending \/ host.refWait # {}

\* The preview loop has its callback pending; the immersive callback is
\* pending on xrSession.
PreviewScheduled == app.previewAnimId # Null /\ app.previewAnimId \in rafPending

XRScheduled == /\ app.xrSession # Null
               /\ host.sess[app.xrSession] = "live"
               /\ host.raf[app.xrSession] > 0

AnyXRScheduled == \E s \in Sessions : host.raf[s] > 0

\* The draw d used the parameters p = [u, c] of the provider and the Compositor.
DrawUses(d, p) ==
  /\ d.keyColor = p.c.currentKeyColor
  /\ d.tolerance = p.c.currentTolerance
  /\ d.smoothing = p.c.currentSmoothing
  /\ d.model = ModelMatrix(p.u, player)

----------------------------------------------------------------------------
\* C1: whenever no startXR call is in flight, no frame is in progress and the
\* video can be uploaded, exactly one scheduler is active: the preview loop
\* (and no immersive callback) when isXR is false, the immersive callback on
\* xrSession (and no preview callback) when isXR is true.
C1_ExactlyOneScheduler ==
  (~EntryInFlight /\ Idle /\ ~player.tainted) =>
     IF app.isXR
     THEN XRScheduled /\ rafPending = {}
     ELSE PreviewScheduled /\ Cardinality(rafPending) = 1 /\ ~AnyXRScheduled

\* C2: once a session that startXR obtained has ended, by endXR or by the
\* host, and the teardown itself did not throw, the mode is Preview (isXR
\* false, xrSession null), the Compositor is on the preview canvas and exactly
\* one preview loop is running.
C2_EndRunsTeardown ==
  ev \in {"end_teardown", "end_unheard"} =>
     /\ ~app.isXR
     /\ app.xrSession = Null
     /\ ck.gl = PreviewCanvas /\ ck.program = PreviewCanvas
     /\ rafPending = {app.previewAnimId}

\* C3: after a startXR call has ended in its catch block, the mode is
\* Preview, the preview loop is still running, the Compositor is usable on
\* the preview canvas and an error status is shown.
C3_FailedEntryKeepsPreview ==
  ev = "startXR_failed" =>
     /\ ~app.isXR
     /\ PreviewScheduled
     /\ ck.gl = PreviewCanvas /\ ck.program = PreviewCanvas
     /\ ui.status = StatusError

\* C4: a startXR call that finds navigator.xr absent, or is answered false by
\* isSessionSupported, leaves App (the mode, the session) as it was, requests
\* no session, leaves the preview callbacks and the Compositor untouched, and
\* shows an error status.
C4_UnsupportedKeepsPreview ==
  [][ ((StartXR /\ ~host.xrAvailable) \/ SupportedResolve(FALSE)) =>
        /\ app' = app
        /\ host'.reqPending = host.reqPending
        /\ host'.sess = host.sess
        /\ rafPending' = rafPending
        /\ ck' = ck
        /\ ui'.status = StatusError ]_vars

\* C4 happens: isSessionSupported answered false, the mode is Preview with
\* its loop pending, no session request is out, the error status shows.
C4_Witness ==
  /\ ev = "startXR_unsupported"
  /\ ~app.isXR /\ PreviewScheduled
  /\ ~host.reqPending
  /\ ui.status = StatusError

\* C5: after an immersive frame whose pose was null, no clear, no upload and
\* no draw was issued, and a callback is pending on xrSession.
C5_NullPoseSkipsDrawing ==
  ev = "xrFrame_noPose" =>
     /\ Clears = <<>> /\ Uploads = <<>> /\ Draws = <<>>
     /\ XRScheduled

\* C5 happens: a frame with a null pose has run during a session.
C5_Witness ==
  /\ ev = "xrFrame_noPose"
  /\ TickViews = NoPose
  /\ app.isXR
  /\ host.raf[app.xrSession] = 1

\* C6: the first call of every immersive frame is the registration for the
\* next frame and nothing is cleared, uploaded or drawn before it; when the
\* frame throws, the callback is pending all the same.
C6_RegistersBeforeWork ==
  ev \in {"xrFrame_noPose", "xrFrame_views", "xrFrame_done", "xrFrame_threw"} =>
     /\ lastOps # <<>>
     /\ lastOps[1].op = "raf" /\ lastOps[1].ctx = "session"
     /\ \A i \in Positions("clear") \cup Positions("upload") \cup Positions("draw") : i > 1
     /\ XRScheduled

\* C6 happens: a frame threw at the upload and the next frame is registered.
C6_Witness ==
  /\ ev = "xrFrame_threw"
  /\ Threw(lastOps)
  /\ lastOps[1].op = "raf"
  /\ XRScheduled

\* C7: when an immersive frame that had a pose has ended, the Compositor has
\* drawn once for each view of the pose, in the host's order, each draw with
\* the view's projection matrix, the inverse of its transform, the model
\* matrix of the placement, the layer's framebuffer and the view's viewport.
C7_OneDrawPerView ==
  (TickEnded /\ TickViews # NoPose) =>
     /\ Len(Draws) = Len(TickViews)
     /\ \A i \in 1..Len(TickViews) :
          LET view == View(TickViews[i])
              d == Draws[i]
          IN  /\ d.proj = view.projectionMatrix
              /\ d.view = InverseMatrix(view.transform)
              /\ d.model = ModelMatrix(ui, player)
              /\ d.fb = app.xrGLLayer
              /\ d.vp = getViewport(view)

\* C8: in an immersive frame that had a pose, the clear of the layer's
\* framebuffer to transparent is the first graphics call; the video is
\* uploaded once when a video exists and is not paused and not at all
\* otherwise, however many views there are; every draw comes after both.
C8_ClearUploadThenDraws ==
  (ev \in {"xrFrame_views", "xrFrame_done", "xrFrame_threw"} /\ TickViews # NoPose) =>
     /\ Len(lastOps) >= 3
     /\ lastOps[3].op = "clear"
     /\ lastOps[3].fb = app.xrGLLayer /\ lastOps[3].color = Transparent
     /\ Positions("clear") = {3}
     /\ Len(Uploads) = IF player.video /\ ~player.paused THEN 1 ELSE 0
     /\ \A i \in Positions("upload") : i = 4
     /\ \A i \in Positions("draw") : \A j \in Positions("clear") \cup Positions("upload") : j < i

\* C8 happens: a frame of two views uploaded once and drew twice.
C8_Witness ==
  /\ ev = "xrFrame_done"
  /\ Len(TickViews) = 2
  /\ Len(Uploads) = 1
  /\ Len(Draws) = 2

\* C9: in an immersive frame, a draw issued after an input took effect uses
\* the parameters that input left, and a draw issued before the first input
\* of the frame uses the parameters from before it.
C9_ParamsReadAtEachDraw ==
  \A i \in Positions("draw") :
     LET before == { j \in Positions("mutate") : j < i }
         after == { j \in Positions("mutate") : j > i }
     IN  IF before # {}
         THEN DrawUses(lastOps[i], lastOps[CHOOSE j \in before : \A k \in before : k <= j].new)
         ELSE after # {} =>
              DrawUses(lastOps[i], lastOps[CHOOSE j \in after : \A k \in after : j <= k].old)

\* C9 happens: within one frame a draw, then an input, then a draw that
\* differs from the first in a key parameter or in the model matrix.
C9_Witness ==
  \E i, j, k \in 1..Len(lastOps) :
     /\ i < j /\ j < k
     /\ lastOps[i].op = "draw" /\ lastOps[j].op = "mutate" /\ lastOps[k].op = "draw"
     /\ lastOps[i].ctx = XRCanvas
     /\ \/ lastOps[i].model # lastOps[k].model
        \/ lastOps[i].tolerance # lastOps[k].tolerance

\* C10: every draw of the handler that ran last passed the key color, the
\* tolerance and the smoothing that the parameter provider set last.
C10_DrawUsesLastSet ==
  \A i \in Positions("draw") :
     /\ lastOps[i].keyColor = KEY_COLORS[ui.currentColor]
     /\ lastOps[i].tolerance = ui.tolerance
     /\ lastOps[i].smoothing = ui.smoothing

\* C10 happens: after a session has come and gone, a preview draw passes a
\* color, a tolerance and a smoothing that are none of the defaults.
C10_Witness ==
  /\ \E s \in Sessions : host.sess[s] = "ended"
  /\ Draws # <<>>
  /\ Draws[1].ctx = PreviewCanvas
  /\ Draws[1].keyColor = KEY_COLORS["blue"]
  /\ Draws[1].tolerance = 50
  /\ Draws[1].smoothing = 20

----------------------------------------------------------------------------
\* C11: every immersive draw is given a model matrix that is the translation
\* to (offsetX, offsetY, -distance) applied after the scale by (halfWidth,
\* halfHeight, 1): it sends the quad's corner (x, y, 0) to
\* (halfWidth*x + offsetX, halfHeight*y + offsetY, -distance) and the quad's
\* centre to (offsetX, offsetY, -distance), so the translation is never
\* scaled and the quad spans 2*halfWidth by 2*halfHeight.
C11_ModelMatrixPlacesQuad ==
  \A i \in 1..Len(lastOps) :
    (lastOps[i].op = "draw" /\ lastOps[i].fb # Null) =>
      LET m == lastOps[i].model
          offX == Hundredths(ui.screenOffsetX)
          offY == Hundredths(ui.screenOffsetY)
          z == Hundredths(0 - ui.screenDistance)
          hw == halfWidth(ui, player)
          hh == halfHeight(ui)
          at(x, y) == MatVec(m, <<Rat(x, 1), Rat(y, 1), RZero, ROne>>)
      IN  /\ \A c \in QuadCorners :
               at(c[1], c[2]) = [ k \in 1..4 |->
                                    IF k = 1 THEN RAdd(RMul(hw, Rat(c[1], 1)), offX)
                                    ELSE IF k = 2 THEN RAdd(RMul(hh, Rat(c[2], 1)), offY)
                                    ELSE IF k = 3 THEN z ELSE ROne ]
          /\ at(0, 0) = <<offX, offY, z, ROne>>
          /\ RAdd(at(1, 1)[1], RMul(Rat(0 - 1, 1), at(0 - 1, 0 - 1)[1])) = RMul(Rat(2, 1), hw)
          /\ RAdd(at(1, 1)[2], RMul(Rat(0 - 1, 1), at(0 - 1, 0 - 1)[2])) = RMul(Rat(2, 1), hh)

\* An immersive draw of a quad moved off its first offsets, at a distance
\* and a scale set by the sliders.
C11_Witness ==
  /\ ev = "xrFrame_done"
  /\ \E i \in 1..Len(lastOps) : lastOps[i].op = "draw" /\ lastOps[i].fb # Null
  /\ ui.screenOffsetX # INIT_OFFSET_X
  /\ ui.screenOffsetY # INIT_OFFSET_Y
  /\ ui.screenDistance # INIT_DISTANCE
  /\ ui.screenScale # INIT_SCALE

\* C12: in every immersive draw the quad's half-height is scale * 0.5 and
\* its half-width is scale * aspect * 0.5, where aspect is the video's
\* width over height when a video exists and reports both as non-zero and
\* 16/9 otherwise; the aspect enters the half-width only.  At 16:9 and
\* scale 1 the half-width is 8/9 and the half-height 1/2.
C12_HalfExtentsFromScaleAndAspect ==
  \A i \in 1..Len(lastOps) :
    (lastOps[i].op = "draw" /\ lastOps[i].fb # Null) =>
      LET m == lastOps[i].model
          reported == player.video /\ player.videoWidth # 0 /\ player.videoHeight # 0
          sixteenNinths == IF reported
                           THEN player.videoWidth * 9 = player.videoHeight * 16
                           ELSE TRUE
      IN  /\ m[6] = Rat(ui.screenScale, 200)
          /\ halfHeight(ui) = m[6]
          /\ halfWidth(ui, player) = m[1]
          /\ m[1] = IF reported
                    THEN Rat(ui.screenScale * player.videoWidth, 200 * player.videoHeight)
                    ELSE Rat(ui.screenScale * 16, 200 * 9)
          /\ (sixteenNinths /\ ui.screenScale = 100) => m[1] = <<8, 9>> /\ m[6] = <<1, 2>>

\* An immersive draw of a 4:3 video at a scale set by the slider.
C12_Witness ==
  /\ ev = "xrFrame_done"
  /\ \E i \in 1..Len(lastOps) : lastOps[i].op = "draw" /\ lastOps[i].fb # Null
  /\ player.videoWidth = 4 /\ player.videoHeight = 3
  /\ ui.screenScale # INIT_SCALE

----------------------------------------------------------------------------
\* C13 as stated: after any placement inputs 0.3 < distance <= 10 and
\* 0.2 <= scale <= 5.  The closer tap stores exactly 0.3.
C13_DistanceAboveMinimum ==
  /\ MIN_DISTANCE < getScreenDistance(ui) /\ getScreenDistance(ui) <= MAX_DISTANCE
  /\ MIN_SCALE <= getScreenScale(ui) /\ getScreenScale(ui) <= MAX_SCALE

\* C13, amended: after any sequence of distance-slider, scale-slider, depth
\* tap and resize tap inputs, 0.3 <= distance <= 10 and 0.2 <= scale <= 5.
C13_PlacementInRange ==
  /\ MIN_DISTANCE <= getScreenDistance(ui) /\ getScreenDistance(ui) <= MAX_DISTANCE
  /\ MIN_SCALE <= getScreenScale(ui) /\ getScreenScale(ui) <= MAX_SCALE

\* The taps and the sliders have driven both parameters to the ends of
\* their ranges: the distance to its least value, the scale to its greatest.
C13_Witness ==
  /\ getScreenDistance(ui) = MIN_DISTANCE
  /\ getScreenScale(ui) = MAX_SCALE

\* C14: an input that would set the distance above 10 stores exactly 10,
\* which getScreenDistance then returns, on both paths that set the
\* distance: a farther tap from within one step of 10, and a slider asked
\* for more than 10 (12.0).
C14_DistanceClampedAtMax ==
  [][ /\ (UIInput(<<"move", "farther">>) /\ ui.screenDistance + DEPTH_STEP > MAX_DISTANCE)
         => getScreenDistance(ui') = MAX_DISTANCE
      /\ \A r \in SliderRequests :
           (r > MAX_DISTANCE /\ SliderInput("distance", r))
           => getScreenDistance(ui') = MAX_DISTANCE ]_vars

\* The distance stands at 10 after an input asked for more: no slider
\* request and no chain of taps lands on 10 without being held there.
C14_Witness ==
  /\ getScreenDistance(ui) = MAX_DISTANCE
  /\ ev = EvStep
  /\ \A r \in SliderRequests : r # MAX_DISTANCE
  /\ \A r \in SliderRequests \cup {INIT_DISTANCE} :
       (MAX_DISTANCE - Max(SliderRange("distance").min, r)) % DEPTH_STEP # 0

----------------------------------------------------------------------------
\* C15: the tolerance and the smoothing the Compositor holds, and hands to
\* every pixel it shades, are never below 0 (and are numbers), after any
\* sequence of tolerance-slider, XR-tolerance-slider, smoothing-slider and
\* color-selection inputs.
C15_KeyParametersNonNegative ==
  /\ ck.currentTolerance >= 0
  /\ ck.currentSmoothing >= 0
  /\ \A i \in 1..Len(Fragments) :
       Fragments[i].tolerance >= 0 /\ Fragments[i].smoothing >= 0

\* Black selected after the sliders were dragged: the tolerance lowered to
\* 0.15 by the color rule, the smoothing at the bottom of its slider, and a
\* pixel shaded with them.
C15_Witness ==
  /\ ui.currentColor = "black"
  /\ ck.currentTolerance = BLACK_TOLERANCE
  /\ ck.currentSmoothing = 0
  /\ Fragments # <<>>

\* What C16 asks of two pixels f and g shaded with the same settings; with
\* t = n / s the ramp 3t^2 - 2t^3 is (3 n^2 s - 2 n^3) / s^3.
AlphaLaw(f, g) ==
  LET n == f.diff - f.tolerance
      s == f.smoothing
  IN  /\ f.diff <= g.diff => ~RLess(g.alpha, f.alpha)
      /\ f.diff <= f.tolerance => f.alpha = RZero
      /\ f.diff >= f.tolerance + f.smoothing => f.alpha = ROne
      /\ (f.tolerance < f.diff /\ f.diff < f.tolerance + f.smoothing) =>
           f.alpha = Rat(3 * n * n * s - 2 * n * n * n, s * s * s)
      /\ (f.tolerance = 35 /\ f.smoothing = 10 /\ f.diff = 40) => f.alpha = Rat(1, 2)
      /\ f.written <=> ~RLess(f.alpha, Rat(1, 100))

\* C16 as stated, for every tolerance >= 0 and smoothing >= 0.  At
\* smoothing 0 a pixel at distance tolerance would need alpha 0 and 1.
C16_AlphaRampAnySmoothing ==
  \A i, j \in 1..Len(Fragments) :
    (Fragments[i].tolerance >= 0 /\ Fragments[i].smoothing >= 0)
    => AlphaLaw(Fragments[i], Fragments[j])

\* C16, amended: for tolerance >= 0 and smoothing > 0 the alpha of a pixel
\* never decreases as its key distance grows, is 0 up to the tolerance, 1
\* from tolerance + smoothing on, and 3t^2 - 2t^3 in between (0.5 at
\* tolerance 0.35, smoothing 0.10, distance 0.40); the pixel is skipped
\* exactly when alpha < 0.01.
C16_AlphaRamp ==
  \A i, j \in 1..Len(Fragments) :
    (Fragments[i].tolerance >= 0 /\ Fragments[i].smoothing > 0)
    => AlphaLaw(Fragments[i], Fragments[j])

\* Two pixels of one draw: one inside the ramp whose alpha is above 0 and
\* yet below 0.01, so it is skipped, and one at the middle of a ramp.
C16_Witness ==
  \E i, j \in 1..Len(Fragments) :
    /\ Fragments[i].smoothing > 0
    /\ RLess(RZero, Fragments[i].alpha) /\ ~Fragments[i].written
    /\ Fragments[j].alpha = Rat(1, 2)

----------------------------------------------------------------------------
\* C17: a call of updateTexture, render or renderPreview made while no init
\* has succeeded throws nothing and issues no graphics call (the three
\* functions assign no Compositor state in any case).
C17_CallsBeforeInitAreNoOps ==
  (NotInitialized /\ ev \in {"updateTexture", "render", "renderPreview", "call_threw"})
  => (lastOps = <<>> /\ ev # "call_threw")

\* The calls of the init that ran last, by kind.
InitGot == \E i \in 1..Len(lastOps) : lastOps[i].op = "getContext" /\ lastOps[i].ok

InitStageOk(kind, stage) ==
  \E i \in 1..Len(lastOps) :
    /\ lastOps[i].op = kind
    /\ lastOps[i].ok
    /\ kind = "compile" => lastOps[i].stage = stage

InitStageFailed ==
  \E i \in 1..Len(lastOps) : lastOps[i].op \in {"compile", "link"} /\ ~lastOps[i].ok

\* C18: an init call ends in a throw when neither context version could be
\* had or a compile or the link failed, at once and without asking the host
\* for the failed stage again; it ends in the return of a context exactly
\* when a context was had and the vertex compile, the fragment compile and
\* the link all succeeded, and the context returned is the one now held.
C18_InitThrowsOrReturnsContext ==
  ev \in {"init_threw", "init_returned"} =>
    LET last == lastOps[Len(lastOps)]
        count(P(_)) == Cardinality({ i \in 1..Len(lastOps) : P(lastOps[i]) })
    IN  /\ last.op \in {"throw", "return"}
        /\ (last.op = "throw") <=> (ev = "init_threw")
        /\ (~InitGot \/ InitStageFailed) => last.op = "throw"
        /\ (last.op = "return") <=>
             /\ InitGot
             /\ InitStageOk("compile", "vertex")
             /\ InitStageOk("compile", "fragment")
             /\ InitStageOk("link", "")
        /\ last.op = "return" => last.value = ck.gl /\ ck.gl = last.ctx /\ ck.program = ck.gl
        /\ \A v \in {"webgl2", "webgl"} :
             count(LAMBDA o : o.op = "getContext" /\ o.version = v) <= 1
        /\ \A s \in {"vertex", "fragment"} :
             count(LAMBDA o : o.op = "compile" /\ o.stage = s) <= 1
        /\ count(LAMBDA o : o.op = "link") <= 1
        /\ \A i \in 1..Len(lastOps) :
             (lastOps[i].op \in {"compile", "link"} /\ ~lastOps[i].ok) => i = Len(lastOps) - 1

\* An init that had to fall back to webgl and then failed at the link.
C18_Witness ==
  /\ ev = "init_threw"
  /\ lastOps[Len(lastOps)].error = "Program link error"
  /\ lastOps[1].op = "getContext" /\ ~lastOps[1].ok
  /\ lastOps[2].op = "getContext" /\ lastOps[2].ok

\* C19: the program, the quad buffer and the video texture the Compositor
\* holds were created on the context it holds, and every draw uses a
\* program, a buffer and a texture of the context it draws on.
C19_ResourcesOnCurrentContext ==
  /\ ck.gl # NoContext =>
       /\ ck.program \in {NoContext, ck.gl}
       /\ ck.quadVAO \in {NoContext, ck.gl}
       /\ ck.videoTexture \in {NoContext, ck.gl}
  /\ \A i \in 1..Len(lastOps) :
       lastOps[i].op = "draw" =>
         /\ lastOps[i].program = lastOps[i].ctx
         /\ lastOps[i].quad = lastOps[i].ctx
         /\ lastOps[i].texture = lastOps[i].ctx

\* C20: a refresh in Preview calls renderPreview once exactly when a video
\* exists, is ready and is not paused, and always ends by requesting the
\* next refresh, which is then pending.
C20_PreviewLoopKeepsRunning ==
  ev \in {"preview_frame", "preview_threw"} =>
    LET previews == { i \in 1..Len(lastOps) :
                        lastOps[i].op = "viewport" /\ lastOps[i].vp = CanvasViewport }
    IN  /\ ck.gl # NoContext =>
             Cardinality(previews)
               = (IF player.video /\ player.isReady /\ ~player.paused THEN 1 ELSE 0)
        /\ lastOps # <<>>
        /\ lastOps[Len(lastOps)].op = "raf"
        /\ PreviewScheduled

----------------------------------------------------------------------------
\* The calls renderPreview makes first, and the requests of the preview loop.
PreviewCalls == { i \in 1..Len(lastOps) :
                    lastOps[i].op = "viewport" /\ lastOps[i].vp = CanvasViewport }

PreviewRequests == { i \in 1..Len(lastOps) :
                       lastOps[i].op = "raf" /\ lastOps[i].ctx = "window" }

\* C21: a handler that called renderPreview or requested a refresh of the
\* window ran in mode Preview, and the calls of renderPreview went to the
\* preview canvas's context: none is made while the mode is Immersive or
\* while the Compositor holds the immersive surface's context.
C21_NoPreviewWhileImmersive ==
  /\ (PreviewCalls # {} \/ PreviewRequests # {}) => ~app.isXR
  /\ \A i \in PreviewCalls : lastOps[i].ctx = PreviewCanvas /\ ck.gl = PreviewCanvas

\* An immersive frame has drawn while the preview callback that was pending
\* at the transition is cancelled and none was requested since.
C21_Witness ==
  /\ app.isXR
  /\ ev = "xrFrame_done"
  /\ Draws # <<>>
  /\ app.previewAnimId # Null
  /\ rafPending = {}

----------------------------------------------------------------------------
\* The calls on the immersive side: a frame requested of a session, the
\* pose asked, a clear of or a draw into a layer's framebuffer.
ImmersiveCalls == { i \in 1..Len(lastOps) :
                      \/ lastOps[i].ctx = "session"
                      \/ lastOps[i].op \in {"clear", "draw"} /\ lastOps[i].fb # Null }

\* C22: once onXREnd has run and until a session is entered again, no
\* immersive callback is pending and no handler requests a frame of a
\* session or clears or draws into a layer; an xrRenderLoop invoked then
\* returns at once, without a call and without a throw.  A frame in
\* progress belongs to the live session and runs to its last view.
C22_NoImmersiveWorkAfterExit ==
  /\ app.xrSession = Null =>
       /\ ~AnyXRScheduled
       /\ ImmersiveCalls = {}
       /\ ev # "xrFrame_threw"
       /\ ev = "xrFrame_noSession" => lastOps = <<>> /\ Uploads = <<>>
  /\ frame.active => app.xrSession # Null /\ host.sess[app.xrSession] = "live"

\* xrRenderLoop was invoked after the teardown had re-bound the Compositor
\* to the preview canvas and restarted the preview loop.
C22_Witness ==
  /\ ev = "xrFrame_noSession"
  /\ app.xrSession = Null /\ ~app.isXR
  /\ ck.gl = PreviewCanvas
  /\ PreviewScheduled
  /\ \E s \in Sessions : host.sess[s] = "ended" /\ s \in host.listeners

----------------------------------------------------------------------------
\* The Compositor holds a context and a program and a texture made on it.
Initialized ==
  /\ ck.gl # NoContext
  /\ ck.program = ck.gl
  /\ ck.videoTexture = ck.gl

\* C23: a renderPreview call on an initialized Compositor makes these calls
\* in this order and no others: the resize of the canvas exactly when its
\* backing and displayed sizes differ, the viewport, the clear to
\* transparent, one upload, one draw with identity projection, view and
\* model into the default backbuffer.
C23_PreviewCallSequence ==
  (Initialized /\ ev \in {"preview_differs", "preview_fits"}) =>
    LET resized == ev = "preview_differs"
        k == IF resized THEN 1 ELSE 0
    IN  /\ Len(lastOps) = k + 4
        /\ resized => lastOps[1].op = "resize"
        /\ lastOps[k + 1].op = "viewport"
        /\ lastOps[k + 2].op = "clear"
        /\ lastOps[k + 2].color = Transparent
        /\ lastOps[k + 2].fb = Null
        /\ lastOps[k + 3].op = "upload"
        /\ lastOps[k + 4].op = "draw"
        /\ lastOps[k + 4].proj = IDENTITY
        /\ lastOps[k + 4].view = IDENTITY
        /\ lastOps[k + 4].model = IDENTITY
        /\ lastOps[k + 4].fb = Null

\* C24: a render call on a Compositor that holds a context and a program
\* draws once, into the framebuffer it was given or into the default
\* backbuffer when it was given none, under the viewport it was given or,
\* when it was given none, under the viewport that was bound already.
C24_RenderBindsTargetAndViewport ==
  (ev = "renderWith" /\ ck.gl # NoContext /\ ck.program # NoContext) =>
    /\ Len(lastOps) = 2
    /\ lastOps[2].op = "draw"
    /\ lastOps[2].fb = lastOps[1].fb
    /\ lastOps[2].vp = IF lastOps[1].viewport # NoViewport
                       THEN lastOps[1].viewport ELSE lastOps[1].bound

\* A render into a layer's framebuffer under an eye's viewport while the
\* canvas viewport was bound.
C24_Witness ==
  /\ ev = "renderWith"
  /\ Len(lastOps) = 2
  /\ lastOps[1].fb # Null
  /\ lastOps[1].viewport # NoViewport
  /\ lastOps[1].bound = CanvasViewport
  /\ lastOps[2].op = "draw"

\* C25: a load starts its strategies in the order direct with crossOrigin,
\* proxy 1, proxy 2, direct without crossOrigin; every strategy before the
\* last started one has failed; the load resolves exactly when a strategy
\* succeeds, with that strategy and with none started after it; it rejects
\* exactly when all four have failed.
C25_StrategiesInOrder ==
  LET l == player.load
      Order == << "direct_cors", "proxy1", "proxy2", "direct_nocors" >>
      n == Len(l.started)
      m == Len(l.settled)
  IN  /\ n <= Len(Order)
      /\ \A k \in 1..n : l.started[k] = Order[k]
      /\ m \in {n - 1, n} \cap Nat
      /\ \A k \in 1..m : l.settled[k] = "ok" => k = n
      /\ (l.result = "resolved") <=> (m > 0 /\ l.settled[m] = "ok")
      /\ (l.result = "resolved") => (m = n /\ l.by = Order[n])
      /\ (l.result = "rejected")
           <=> (m = Len(Order) /\ \A k \in 1..m : l.settled[k] = "failed")
      /\ (l.result = "pending") <=> (m = n - 1)

\* The load resolved with the second proxy, after two failures.
C25_Witness ==
  /\ player.load.result = "resolved"
  /\ player.load.by = "proxy2"
  /\ player.load.settled = << "failed", "failed", "ok" >>

\* C26: while a session that startXR obtained is live with xrRenderLoop
\* registered on it, isXR is true, whatever other startXR calls do.
C26_RunningSessionKeepsIsXR ==
  XRScheduled => app.isXR

\* C27: whenever no handler is part-way (no startXR call between two awaits,
\* no frame in progress), isXR is true exactly when xrSession is a live
\* session with onXREnd registered as its end listener, and xrSession is
\* null whenever isXR is false.
C27_ModeFlagMatchesSession ==
  (~EntryInFlight /\ Idle) =>
     /\ app.isXR <=> /\ app.xrSession # Null
                     /\ host.sess[app.xrSession] = "live"
                     /\ app.xrSession \in host.listeners
     /\ ~app.isXR => app.xrSession = Null

\* C28: an endXR call made while no session is live changes nothing: the
\* mode and the session handles, the Compositor, the pending preview
\* callbacks, the provider's state and the host's are as they were.
C28_EndWithoutSessionIsNoOp ==
  [][ ((\A s \in Sessions : host.sess[s] # "live") /\ \E o \in InitOutcomes : EndXR(o))
        => UNCHANGED <<app, ck, ui, player, rafPending, host>> ]_vars

\* C28 happens: endXR was called in Preview, after a session had come and
\* gone, and the one preview loop is still the only scheduler.
C28_Witness ==
  /\ ev = "endXR_noSession"
  /\ \E s \in Sessions : host.sess[s] = "ended"
  /\ \A s \in Sessions : host.sess[s] # "live"
  /\ ~app.isXR /\ app.xrSession = Null
  /\ rafPending = {app.previewAnimId}

\* C29: the key color of the Compositor is the preset of the provider's
\* color name, and its tolerance and smoothing are the provider's, after any
\* slider inputs, color taps and color toggles.
C29_ProviderMatchesCompositor ==
  /\ ck.currentKeyColor = KEY_COLORS[ui.currentColor]
  /\ ck.currentTolerance = ui.tolerance
  /\ ck.currentSmoothing = ui.smoothing

\* C29 happens: black was selected with a tolerance above its limit, after
\* the smoothing had been changed, and both sides hold the lowered tolerance.
C29_Witness ==
  /\ ui.currentColor = "black" /\ ck.currentKeyColor = KEY_COLORS["black"]
  /\ ui.tolerance = BLACK_TOLERANCE /\ ck.currentTolerance = BLACK_TOLERANCE
  /\ ui.smoothing # INIT_SMOOTHING /\ ck.currentSmoothing = ui.smoothing

\* A step of startXR, of the session's end or of endXR.
ModeTransition ==
  \/ StartXR
  \/ \E b \in BOOLEAN : SupportedResolve(b)
  \/ SupportedReject
  \/ SessionReject
  \/ \E o \in InitOutcomes, l \in BOOLEAN : SessionGrant(o, l)
  \/ \E s \in Sessions, a \in BOOLEAN : RefSpaceResolve(s, a)
  \/ \E s \in Sessions : RefSpaceReject(s)
  \/ \E s \in Sessions, o \in InitOutcomes : HostEnd(s, o)
  \/ \E o \in InitOutcomes : EndXR(o)

\* The key parameters of the Compositor and of the provider, and the placement.
KeyAndPlacement ==
  << ck.currentKeyColor, ck.currentTolerance, ck.currentSmoothing,
     ui.currentColor, ui.tolerance, ui.smoothing,
     ui.screenDistance, ui.screenScale, ui.screenOffsetX, ui.screenOffsetY >>

\* C30: no step of a mode transition (an entry that succeeds or fails at any
\* stage, an exit, each with its re-initialization of the Compositor) changes
\* the key color, the tolerance, the smoothing, the distance, the scale or
\* the offsets.
C30_TransitionsKeepParameters ==
  [][ ModeTransition => KeyAndPlacement' = KeyAndPlacement ]_vars

\* C30 happens: a session has ended and the teardown has re-initialized the
\* Compositor, and every parameter is still the one set before, none a default.
C30_Witness ==
  /\ ev = "end_teardown"
  /\ ck.gl = PreviewCanvas
  /\ ck.currentKeyColor = KEY_COLORS["blue"] /\ ui.currentColor = "blue"
  /\ ck.currentTolerance = 50 /\ ck.currentSmoothing = 20
  /\ ui.screenDistance = 350 /\ ui.screenScale = 150
  /\ ui.screenOffsetX = INIT_OFFSET_X + MOVE_STEP

\* A tap on a color button or on the XR color toggle.
ColorStep ==
  \/ \E n \in KeyColorNames : UIInput(<<"color", n>>)
  \/ UIInput(<<"xrColorToggle", "">>)

\* C31: a color selection that picks black while the tolerance is above 0.2
\* sets the tolerance of the provider and of the Compositor to 0.15; any
\* other color selection (green, blue, or black with the tolerance at most
\* 0.2) leaves the tolerance of both as it was, so a tolerance lowered for
\* black stays lowered; no color selection changes the smoothing.
C31_OnlyBlackLowersTolerance ==
  [][ ColorStep =>
        /\ IF ui'.currentColor = "black" /\ ui.tolerance > BLACK_TOLERANCE_LIMIT
           THEN ui'.tolerance = BLACK_TOLERANCE /\ ck'.currentTolerance = BLACK_TOLERANCE
           ELSE ui'.tolerance = ui.tolerance /\ ck'.currentTolerance = ck.currentTolerance
        /\ ui'.smoothing = ui.smoothing
        /\ ck'.currentSmoothing = ck.currentSmoothing ]_vars

\* C31 happens: the black rule lowered the tolerance to 0.15 and blue was
\* selected afterwards, the tolerance still 0.15 on both sides and the
\* smoothing the one set before.
C31_Witness ==
  /\ ui.currentColor = "blue" /\ ck.currentKeyColor = KEY_COLORS["blue"]
  /\ ui.tolerance = BLACK_TOLERANCE /\ ck.currentTolerance = BLACK_TOLERANCE
  /\ ui.smoothing = BLACK_TOLERANCE_LIMIT + 1

\* C32: isReady is false from the start of a load until the load resolves,
\* and when it is true the source now assigned to the video element has
\* fired canplay.
C32_ReadyOnlyAfterCanPlay ==
  /\ player.load.result = "pending" => ~player.isReady
  /\ player.isReady => player.load.elem = "canplay"

\* C33: at most one blob URL that the loader created is un-revoked.
C33_AtMostOneBlobUrl ==
  player.load.blobs <= 1

\* The events of the tap in progress that reached the handler.
TapInvocations == { i \in 1..Len(ui.tap.log) : ui.tap.log[i].invoked }

\* C34: the events of one physical tap call the handler at most once, and
\* once when the tap began with no reset pending; an event calls the handler
\* exactly when the reset has fired since the last call (or there was no
\* call yet), so events after a call are swallowed until the reset and the
\* first one after it calls the handler.
C34_OneInvocationPerTap ==
  /\ Cardinality(TapInvocations) <= 1
  /\ \A i \in 1..Len(ui.tap.log) : ui.tap.log[i].invoked <=> ui.tap.log[i].afterReset
  /\ (ui.tap.queue = <<>> /\ ui.tap.log # <<>> /\ ~ui.tap.startedHandled)
        => Cardinality(TapInvocations) = 1

\* C34 happens: a second tap, after the reset: its pointerup called the
\* handler (the toggle has moved twice, to black), its touchend and its click
\* were swallowed.
C34_Witness ==
  /\ ui.tap.queue = <<>>
  /\ Len(ui.tap.log) = 3
  /\ ui.tap.log[1].invoked /\ ~ui.tap.log[2].invoked /\ ~ui.tap.log[3].invoked
  /\ ui.currentColor = "black"

====
